---- MODULE Spec2Model ----
(***************************************************************************)
(* Verification model of the CrowdControl real-time crowd-risk pipeline.   *)
(*                                                                         *)
(*   Spec      the asynchronous execution engine of                        *)
(*             ai_model/inference_engine.py (StampedeInferenceEngine):     *)
(*             submit_frame_async, get_result_async, start/stop and the    *)
(*             worker loop, as interleaved threads.                        *)
(*   SpecLoad  the same engine with one stream submitting more frames than *)
(*             the processing queue holds.                                 *)
(*   SpecPredictor  the frame path of backend/api/ai_predictor_fixed.py    *)
(*             (FixedAIPredictor.predict_crowd) called for the frames of   *)
(*             several streams, one call at a time.                        *)
(*   SpecTwoRuns    the same calls beside a second run of the predictor    *)
(*             that is given the frames of stream 1 only.                  *)
(*                                                                         *)
(*   SpecRace  the same predictor called by concurrent request threads     *)
(*             (views.analyze_frame on the one get_predictor() instance),  *)
(*             each call as the sequence of its reads and writes of the    *)
(*             motion and calibration state.                               *)
(*                                                                         *)
(*   SpecRisk  the risk level of a frame: the engine's predict_frame on two *)
(*             classifier outputs for one frame, and the production        *)
(*             predictor's recalculation; inputs drawn in the initial      *)
(*             state. Class probabilities are in tenths.                   *)
(*                                                                         *)
(*   SpecDetect  the people count of a frame: ImprovedPeopleDetector's     *)
(*             filter and NMS on the frame's detections, the engine's      *)
(*             predict_frame count and the production predictor's count;   *)
(*             the frame is drawn in the initial state. Confidences and    *)
(*             the NMS threshold are in thousandths, boxes in pixels.      *)
(*                                                                         *)
(*   SpecCalibrate  _update_calibration called on its own, from the        *)
(*             constructed calibration state and from decayed ones.        *)
(*   SpecFile  the file path of the predictor, predict_from_file, on       *)
(*             missing, invalid and valid image files.                     *)
(*                                                                         *)
(*   SpecView  the views of backend/api/views.py on the one predictor:     *)
(*             analyze_frame, start_stream, stop_stream and                *)
(*             analyze_media_async, with the analysis results and alerts   *)
(*             they record.                                                *)
(*                                                                         *)
(* Probabilities, scores and risks are integers in thousandths; the EMA    *)
(* variance is in units of 1e-8, its square root in units of 1e-4.         *)
(***************************************************************************)
EXTENDS Integers, Sequences, FiniteSets, TLC

\* ------------------------------------------------------------------ bounds
\* Number of submit_frame_async calls in one behaviour of Spec.
MaxFrames == 3
\* Number of submit_frame_async calls in one behaviour of SpecLoad: more than
\* the queue holds, so that put_nowait meets a full queue.
MaxSubmit == 12
\* Number of worker threads start_async_processing creates in one behaviour.
MaxThreads == 2

\* Number of predict_crowd calls in one behaviour.
MaxCalls == 3

\* Number of request threads calling predict_crowd concurrently.
MaxRequests == 2

\* Largest number of raw detections in a frame.
MaxDets == 2
MaxUploads == 2
MaxLoads == 4
MaxWindow == 6
MaxImages == 2

\* Stream identifiers the callers pass as frame_id.
Streams == {1, 2}

\* queue.Queue(maxsize=10)
QueueMaxSize == 10

\* The value None.
None == [none |-> TRUE]

VARIABLES
    processing_queue,   \* self.processing_queue: frame_data dicts, head first
    result_queue,       \* self.result_queue: DetectionResults, head first
    is_running,         \* self.is_running
    processing_thread,  \* self.processing_thread: 0 is None, else a thread id
    wpc,                \* position of each worker thread in _processing_worker
    wframe,             \* the frame_data a worker holds between get and put
    ctl,                \* position of the thread calling start/stop
    submitted,          \* number of submit_frame_async calls so far
    submit_ret,         \* the last submit_frame_async call and what it returned
    poll_ret,           \* the last get_result_async call and what it returned
    polling,            \* the caller blocked in result_queue.get(timeout), 0 if none
    \* FixedAIPredictor (backend/api/ai_predictor_fixed.py)
    model_loaded,       \* self.model_loaded
    fallback_mode,      \* self.fallback_mode
    production_loaded,  \* the production predictor holds a loaded model
    prev_small_gray,    \* self._prev_small_gray: None or the last frame scored
    ema_mean,           \* self._ema_mean
    ema_var,            \* self._ema_var
    calls,              \* number of predict_crowd calls so far
    analysis,           \* the last predict_crowd call: stream, result, sample
    \* the second run of SpecTwoRuns: a predictor given stream 1's frames only
    ref_prev_small_gray,
    ref_ema_mean,
    ref_ema_var,
    ref_analysis,
    \* request threads of SpecRace
    rpc,                \* position of each request thread inside predict_crowd
    rloc,               \* its local variables
    \* risk level of a frame (SpecRisk)
    risk_in,            \* model outputs and geometry of the frame
    risk_out,           \* the results computed from them so far
    \* people count of a frame (SpecDetect)
    det_frame,          \* the frame: what the detectors and the model see in it
    det_out,            \* the results computed from it so far
    \* calibration alone (SpecCalibrate)
    calibrate_ret,      \* the last _update_calibration call and what it returned
    \* file path (SpecFile)
    file_ret,           \* the last predict_from_file call and what it returned
    \* views (SpecView)
    streams,            \* LiveStream rows by id
    db_results,         \* AnalysisResult rows, oldest first
    alerts,             \* Alert rows, oldest first
    response,           \* the last request handled and its response
    \* media uploads (SpecMedia)
    uploads,            \* MediaUpload rows by id: analysis_status, analysis_result
    mpc,                \* position of each upload's analysis thread
    manalysis,          \* the analysis dict the thread holds
    \* ProductionStampedePredictor (ai_model/production_predictor.py)
    prod_model_loaded,  \* self.model_loaded
    prod_fallback_mode, \* self.fallback_mode
    prod_model_path,    \* self.model_path
    prod_pc,            \* position of the thread calling reload_models
    loads,              \* number of load_model and reload_models calls so far
    load_ret,           \* the last such call, the flags before and after it
    prod_ret,           \* the last predict_crowd call of it: path and dict
    \* ImprovedPeopleDetector.tune_parameters (SpecTune)
    tune_in,            \* the test images, by their raw detections, and true counts
    tune_ret,           \* what tune_parameters returned or raised
    detector_params     \* self.confidence_threshold, self.nms_threshold

engineVars == <<processing_queue, result_queue, is_running, processing_thread,
                wpc, wframe, ctl, submitted, submit_ret, poll_ret, polling>>

predictorVars == <<model_loaded, fallback_mode, production_loaded, prev_small_gray, ema_mean,
                   ema_var, calls, analysis>>

refVars == <<ref_prev_small_gray, ref_ema_mean, ref_ema_var, ref_analysis>>

\* The state outside the engine: no step of the engine reads or writes it.
\* The media uploads and their analysis threads.
mediaVars == <<uploads, mpc, manalysis>>

\* The state no request of the predictor or the views touches.
\* The model-loading state of the production predictor.
productionVars == <<prod_model_loaded, prod_fallback_mode, prod_model_path,
                    prod_pc, loads, load_ret, prod_ret>>

\* The detector under tune_parameters.
tuneVars == <<tune_in, tune_ret, detector_params>>

extraVars == <<mediaVars, productionVars, tuneVars>>

\* The state of the components beside the engine, the predictor and its
\* request threads, and the per-frame risk and count computations.
restVars == <<calibrate_ret, file_ret, streams, db_results, alerts, response,
              extraVars>>

notEngine == <<predictorVars, refVars, rpc, rloc, risk_in, risk_out,
               det_frame, det_out, restVars>>

\* The state outside the predictor.
notPredictor == <<engineVars, risk_in, risk_out, det_frame, det_out, restVars>>

vars == <<engineVars, notEngine>>

Threads == 1..MaxThreads

\* ------------------------------------------- StampedeInferenceEngine.__init__
EngineInit ==
    /\ processing_queue = <<>>
    /\ result_queue = <<>>
    /\ is_running = FALSE
    /\ processing_thread = 0
    /\ wpc = [w \in Threads |-> "unborn"]
    /\ wframe = [w \in Threads |-> None]
    /\ ctl = "idle"
    /\ submitted = 0
    /\ submit_ret = None
    /\ poll_ret = None
    /\ polling = 0

\* put_nowait that lets one item more in before raising queue.Full.
QueueFullOffByOne(q) == Len(q) > QueueMaxSize

\* queue.Queue.put_nowait: raises queue.Full when maxsize items are queued.
QueueFull(q) == Len(q) >= QueueMaxSize

\* submit_frame_async(frame, frame_id): frame n is the n-th frame submitted.
submit_frame_async(s) ==
    /\ LET n == submitted + 1
           frame_data == [frame |-> n, frame_id |-> s]
       IN  /\ submitted' = n
           /\ IF QueueFull(processing_queue)
              THEN /\ processing_queue' = processing_queue
                   /\ submit_ret' = [frame_id |-> s, ok |-> FALSE]
              ELSE /\ processing_queue' = Append(processing_queue, frame_data)
                   /\ submit_ret' = [frame_id |-> s, ok |-> TRUE]
    /\ UNCHANGED <<result_queue, is_running, processing_thread, wpc, wframe,
                   ctl, poll_ret,
                   polling>>
    /\ UNCHANGED notEngine

\* get_result_async(timeout = 0.1): the caller polls on behalf of stream s; the
\* method itself takes no stream.  It is result_queue.get(timeout=timeout): the
\* head of the one result queue when there is one, and otherwise the caller
\* blocks on the queue until a result is put or the timeout expires.
get_result_async(s) ==
    /\ polling = 0
    /\ IF result_queue = <<>>
       THEN /\ polling' = s
            /\ UNCHANGED <<poll_ret, result_queue>>
       ELSE /\ poll_ret' = [caller |-> s, result |-> Head(result_queue),
                            waited |-> FALSE]
            /\ result_queue' = Tail(result_queue)
            /\ polling' = 0
    /\ UNCHANGED <<processing_queue, is_running, processing_thread, wpc,
                   wframe, ctl, submitted, submit_ret>>
    /\ UNCHANGED notEngine

\* The blocked caller is woken by a put of the worker and returns that result.
PollWakes ==
    /\ polling # 0
    /\ result_queue # <<>>
    /\ poll_ret' = [caller |-> polling, result |-> Head(result_queue),
                    waited |-> TRUE]
    /\ result_queue' = Tail(result_queue)
    /\ polling' = 0
    /\ UNCHANGED <<processing_queue, is_running, processing_thread, wpc,
                   wframe, ctl, submitted, submit_ret>>
    /\ UNCHANGED notEngine

\* The timeout expires with the queue still empty: queue.Empty, return None.
PollTimesOut ==
    /\ polling # 0
    /\ result_queue = <<>>
    /\ poll_ret' = [caller |-> polling, result |-> None, waited |-> TRUE]
    /\ polling' = 0
    /\ UNCHANGED <<processing_queue, result_queue, is_running,
                   processing_thread, wpc, wframe, ctl, submitted, submit_ret>>
    /\ UNCHANGED notEngine

\* The lowest thread id not used yet.
NewThread == CHOOSE w \in Threads : wpc[w] = "unborn" /\ \A v \in Threads : v < w => wpc[v] # "unborn"

\* start_async_processing(): returns at once when is_running is set.
start_async_processing ==
    /\ ctl = "idle"
    /\ IF is_running
       THEN UNCHANGED <<is_running, processing_thread, wpc>>
       ELSE /\ \E w \in Threads : wpc[w] = "unborn"
            /\ is_running' = TRUE
            /\ processing_thread' = NewThread
            /\ wpc' = [wpc EXCEPT ![NewThread] = "check"]
    /\ UNCHANGED <<processing_queue, result_queue, wframe, ctl, submitted,
                   submit_ret, poll_ret,
                   polling>>
    /\ UNCHANGED notEngine

\* stop_async_processing(): clears is_running, then joins the current thread.
stop_async_processing ==
    /\ ctl = "idle"
    /\ is_running' = FALSE
    /\ ctl' = IF processing_thread # 0 THEN "joining" ELSE "idle"
    /\ UNCHANGED <<processing_queue, result_queue, processing_thread, wpc,
                   wframe, submitted, submit_ret, poll_ret,
                   polling>>
    /\ UNCHANGED notEngine

\* processing_thread.join(timeout=5.0) returns because the thread has ended.
JoinReturns ==
    /\ ctl = "joining"
    /\ wpc[processing_thread] = "exited"
    /\ ctl' = "idle"
    /\ UNCHANGED <<processing_queue, result_queue, is_running, processing_thread,
                   wpc, wframe, submitted, submit_ret, poll_ret,
                   polling>>
    /\ UNCHANGED notEngine

\* processing_thread.join(timeout=5.0) times out: the worker is still inside
\* predict_frame, the one step of the loop whose duration is not bounded.
JoinTimesOut ==
    /\ ctl = "joining"
    /\ wpc[processing_thread] = "process"
    /\ ctl' = "idle"
    /\ UNCHANGED <<processing_queue, result_queue, is_running, processing_thread,
                   wpc, wframe, submitted, submit_ret, poll_ret,
                   polling>>
    /\ UNCHANGED notEngine

\* _processing_worker: the test of `while self.is_running`.
WorkerCheck(w) ==
    /\ wpc[w] = "check"
    /\ wpc' = [wpc EXCEPT ![w] = IF is_running THEN "get" ELSE "exited"]
    /\ UNCHANGED <<processing_queue, result_queue, is_running, processing_thread,
                   wframe, ctl, submitted, submit_ret, poll_ret,
                   polling>>
    /\ UNCHANGED notEngine

\* _processing_worker: processing_queue.get(timeout=1.0) returns a frame.
WorkerGet(w) ==
    /\ wpc[w] = "get"
    /\ processing_queue # <<>>
    /\ wframe' = [wframe EXCEPT ![w] = Head(processing_queue)]
    /\ processing_queue' = Tail(processing_queue)
    /\ wpc' = [wpc EXCEPT ![w] = "process"]
    /\ UNCHANGED <<result_queue, is_running, processing_thread, ctl, submitted,
                   submit_ret, poll_ret,
                   polling>>
    /\ UNCHANGED notEngine

\* _processing_worker: processing_queue.get(timeout=1.0) raises queue.Empty.
WorkerGetEmpty(w) ==
    /\ wpc[w] = "get"
    /\ processing_queue = <<>>
    /\ wpc' = [wpc EXCEPT ![w] = "check"]
    /\ UNCHANGED <<processing_queue, result_queue, is_running, processing_thread,
                   wframe, ctl, submitted, submit_ret, poll_ret,
                   polling>>
    /\ UNCHANGED notEngine

\* predict_frame: the safe fallback result of its except branch.
FallbackDetection ==
    [risk_level |-> "normal", confidence |-> 0, people_count |-> 0,
     crowd_density |-> 0]

\* predict_frame: what its try branch determines for the frame (the risk
\* computation itself is DetectionResult below).
Determined == [determined |-> TRUE]

\* predict_frame(frame, frame_id): the DetectionResult carries the frame_id;
\* when anything in the try branch raises it is the fallback result.
predict_frame(frame_data, fails) ==
    [frame |-> frame_data.frame, frame_id |-> frame_data.frame_id,
     detection |-> IF fails THEN FallbackDetection ELSE Determined]

\* _processing_worker losing the frame whose prediction failed: the worker's
\* own except branch, which logs and goes on without a put.
WorkerProcessLosesFailed(w, fails) ==
    /\ wpc[w] = "process"
    /\ LET result == predict_frame(wframe[w], fails)
       IN  result_queue' = IF fails THEN result_queue
                           ELSE Append(result_queue, result)
    /\ wframe' = [wframe EXCEPT ![w] = None]
    /\ wpc' = [wpc EXCEPT ![w] = "check"]
    /\ UNCHANGED <<processing_queue, is_running, processing_thread, ctl,
                   submitted, submit_ret, poll_ret,
                   polling>>
    /\ UNCHANGED notEngine

\* _processing_worker: predict_frame, then result_queue.put(result).
WorkerProcess(w, fails) ==
    /\ wpc[w] = "process"
    /\ LET result == predict_frame(wframe[w], fails)
       IN  result_queue' = Append(result_queue, result)
    /\ wframe' = [wframe EXCEPT ![w] = None]
    /\ wpc' = [wpc EXCEPT ![w] = "check"]
    /\ UNCHANGED <<processing_queue, is_running, processing_thread, ctl,
                   submitted, submit_ret, poll_ret,
                   polling>>
    /\ UNCHANGED notEngine

\* The engine under a few frames of either stream.
Next ==
    \/ \E s \in Streams : submitted < MaxFrames /\ submit_frame_async(s)
    \/ \E s \in Streams : get_result_async(s)
    \/ PollWakes
    \/ PollTimesOut
    \/ start_async_processing
    \/ stop_async_processing
    \/ JoinReturns
    \/ JoinTimesOut
    \/ \E w \in Threads : WorkerCheck(w)
    \/ \E w \in Threads : WorkerGet(w)
    \/ \E w \in Threads : WorkerGetEmpty(w)
    \/ \E w \in Threads, fails \in BOOLEAN : WorkerProcess(w, fails)

\* The engine under load: one stream submits more frames than the queue holds
\* while one worker is started, consumes and is stopped, and results are
\* polled.
NextLoad ==
    \/ submitted < MaxSubmit /\ submit_frame_async(1)
    \/ get_result_async(1)
    \/ PollWakes
    \/ PollTimesOut
    \/ processing_thread = 0 /\ start_async_processing
    \/ stop_async_processing
    \/ JoinReturns
    \/ JoinTimesOut
    \/ \E w \in Threads : WorkerCheck(w)
    \/ \E w \in Threads : WorkerGet(w)
    \/ \E w \in Threads : WorkerGetEmpty(w)
    \/ \E w \in Threads : WorkerProcess(w, FALSE)

\* The steps of worker thread w.
WorkerStep(w) ==
    \/ WorkerCheck(w)
    \/ WorkerGet(w)
    \/ WorkerGetEmpty(w)
    \/ \E fails \in BOOLEAN : WorkerProcess(w, fails)

\* The engine while the worker stays running: frames of either stream are
\* submitted and polled, the worker is started and never stopped.
NextRunning ==
    \/ \E s \in Streams : submitted < MaxFrames /\ submit_frame_async(s)
    \/ \E s \in Streams : get_result_async(s)
    \/ PollWakes
    \/ PollTimesOut
    \/ start_async_processing
    \/ \E w \in Threads : WorkerStep(w)

\* ------------------------------------------------------- FixedAIPredictor
Max(a, b) == IF a >= b THEN a ELSE b
Min(a, b) == IF a <= b THEN a ELSE b
Abs(a) == IF a >= 0 THEN a ELSE 0 - a

\* max(0.0, min(1.0, x)) in thousandths.
Clamp01(x) == Max(0, Min(1000, x))

\* The largest r in lo..hi with r * r <= x, by bisection.
RECURSIVE SqrtIn(_, _, _)
SqrtIn(x, lo, hi) ==
    IF lo >= hi THEN lo
    ELSE LET mid == (lo + hi + 1) \div 2
         IN  IF mid * mid <= x THEN SqrtIn(x, mid, hi) ELSE SqrtIn(x, lo, mid - 1)

\* x ** 0.5 of a value in units of 1e-8, in units of 1e-4.
Sqrt(x) == SqrtIn(x, 0, 10000)

\* The z at which 1 / (1 + e^-z) reaches 0.05, 0.10, ..., 0.95.
LogitSteps ==
    <<-2944, -2197, -1734, -1386, -1098, -847, -619, -405, -200, 0,
      201, 406, 620, 848, 1099, 1387, 1735, 2198, 2945>>

\* 1.0 / (1.0 + pow(2.718281828, -z)), rounded down to a step of 0.05 (0.99
\* and, where the float sum rounds to 1.0, 1.0 above 0.95).
Logistic(z) ==
    IF z >= 36737 THEN 1000
    ELSE IF z >= 4596 THEN 990
    ELSE 50 * Cardinality({i \in 1..Len(LogitSteps) : z >= LogitSteps[i]})

\* Frames: the payload decodes or not; a decoded frame has a shape and a
\* gray level. The base prediction (people_count, confidence_score) of the
\* frame is drawn with it: the fallback analysis draws it at random.
Shapes == {1}
Grays == {0, 10}
Peoples == {2, 8, 12}
Confs == {700, 800}

Undecodable == [ok |-> FALSE]

Payloads ==
    {Undecodable} \cup
    [ok : {TRUE}, shape : Shapes, gray : Grays, people : Peoples, conf : Confs]

\* FixedAIPredictor.__init__ before _initialize_ai_components.
PredictorFresh ==
    /\ fallback_mode = TRUE
    /\ model_loaded = FALSE
    /\ production_loaded = FALSE
    /\ prev_small_gray = None
    /\ ema_mean = 500
    /\ ema_var = 5000000
    /\ calls = 0
    /\ analysis = None

\* FixedAIPredictor.__init__ / _initialize_ai_components: the production
\* predictor is constructed, with or without model files to load
\* (ProductionStampedePredictor._initialize_models), or the predictor stays
\* in fallback mode.
PredictorInit ==
    /\ fallback_mode \in BOOLEAN
    /\ model_loaded = ~fallback_mode
    /\ production_loaded \in BOOLEAN
    /\ fallback_mode => ~production_loaded
    /\ prev_small_gray = None
    /\ ema_mean = 500
    /\ ema_var = 5000000
    /\ calls = 0
    /\ analysis = None

\* The second run starts from the same constructed predictor.
RefInit ==
    /\ ref_prev_small_gray = None
    /\ ref_ema_mean = 500
    /\ ref_ema_var = 5000000
    /\ ref_analysis = None

\* _enhanced_fallback_from_array: flags derived from the drawn count and
\* confidence.
enhanced_fallback_from_array(f) ==
    [people_count |-> f.people, confidence_score |-> f.conf,
     crowd_detected |-> f.people >= 3,
     is_stampede_risk |-> (f.people >= 8 /\ f.conf > 750),
     fallback_mode |-> TRUE]

\* ProductionStampedePredictor.predict_crowd: with its model loaded, or
\* _create_fallback_with_real_detection without; in both the flags are those
\* _recalculate_risk_with_accurate_count derives from the count.
production_predict_crowd(f) ==
    IF production_loaded
    THEN [people_count |-> f.people, confidence_score |-> f.conf,
          crowd_detected |-> f.people > 0,
          is_stampede_risk |-> f.people > 15,
          fallback_mode |-> FALSE]
    ELSE [people_count |-> f.people,
          confidence_score |-> IF f.people > 0 THEN 850 ELSE 100,
          crowd_detected |-> f.people > 0,
          is_stampede_risk |-> f.people > 15,
          fallback_mode |-> TRUE]

\* predict_crowd: the base prediction.
BasePrediction(loaded, fallback, f) ==
    IF loaded /\ ~fallback THEN production_predict_crowd(f)
    ELSE enhanced_fallback_from_array(f)

\* _compute_motion_score without OpenCV: mean absolute gray difference to the
\* previous frame of the same shape, over 25, clamped.
compute_motion_score(prev, f) ==
    LET score == IF prev # None /\ prev.shape = f.shape
                 THEN Abs(f.gray - prev.gray) ELSE 0
    IN  Clamp01((score * 1000) \div 25)

\* The frame _compute_motion_score stores in self._prev_small_gray.
StoredGray(f) == [shape |-> f.shape, gray |-> f.gray]

\* _update_calibration: the EMA mean and variance after the update.
NewMean(mean, risk) == (9 * mean + risk) \div 10
NewVar(mean, var, risk) == (9 * var + 100 * (risk - mean) * (risk - mean)) \div 10

\* _update_calibration returning the z-score itself.
update_calibration_returns_z(mean, var, risk) ==
    LET m == NewMean(mean, risk)
        sd == Sqrt(NewVar(mean, var, risk))
        z == IF sd = 0 THEN (risk - m) * 1000000
             ELSE ((risk - m) * 10000) \div sd
    IN  IF z < -709782 THEN risk ELSE z

\* _update_calibration: the returned score. pow overflows for -z above
\* about 709.78 and the except branch returns the risk itself.
update_calibration(mean, var, risk) ==
    LET m == NewMean(mean, risk)
        sd == Sqrt(NewVar(mean, var, risk))
        z == IF sd = 0 THEN (risk - m) * 1000000
             ELSE ((risk - m) * 10000) \div sd
    IN  IF z < -709782 THEN risk ELSE Clamp01(Logistic(z))

\* predict_crowd: fused risk of base prediction and motion.
FusedRisk(people, conf, motion) ==
    LET raw_score == Min(1000, (people * 1000) \div 12)
        base_risk == (500 * raw_score + (500 * Clamp01(conf) * raw_score) \div 1000) \div 1000
    IN  Clamp01((700 * base_risk + 300 * motion) \div 1000)

\* predict_crowd: the returned dict, from the predictor state before the call.
PredictResult(loaded, fallback, prev, mean, var, f) ==
    IF ~f.ok
    THEN [decoded |-> FALSE, crowd_detected |-> FALSE, confidence_score |-> 500,
          people_count |-> 1, is_stampede_risk |-> FALSE, fallback_mode |-> TRUE]
    ELSE LET base == BasePrediction(loaded, fallback, f)
             motion == compute_motion_score(prev, f)
             fused_risk == FusedRisk(base.people_count, base.confidence_score, motion)
             calibrated == update_calibration(mean, var, fused_risk)
         IN  [decoded |-> TRUE, crowd_detected |-> base.crowd_detected,
              confidence_score |-> base.confidence_score,
              people_count |-> base.people_count,
              is_stampede_risk |-> (base.is_stampede_risk \/ calibrated >= 750),
              fallback_mode |-> base.fallback_mode,
              motion_score |-> motion, risk_score |-> fused_risk,
              calibrated_risk_score |-> calibrated]

\* predict_crowd: the metadata _save_active_learning_sample writes for the
\* frame of a result, None when the call writes no sample.
SavedSample(result) ==
    IF result.decoded /\ result.is_stampede_risk
    THEN [people_count |-> result.people_count,
          confidence_score |-> result.confidence_score,
          motion_score |-> result.motion_score,
          fused_risk |-> result.risk_score,
          calibrated_risk |-> result.calibrated_risk_score]
    ELSE None

\* A predict_crowd call: the stream of its frame, the dict it returned and
\* the active-learning sample it wrote.
CallRecord(s, result) ==
    [stream |-> s, result |-> result, sample |-> SavedSample(result)]

\* predict_crowd(image_data) called for a frame of stream s: the predictor's
\* own state after the call.
PredictCrowdBody(s, f) ==
    /\ calls' = calls + 1
    /\ analysis' = CallRecord(s, PredictResult(model_loaded, fallback_mode,
                                             prev_small_gray, ema_mean, ema_var, f))
    /\ IF f.ok
       THEN LET r == analysis'.result
            IN  /\ prev_small_gray' = StoredGray(f)
                /\ ema_mean' = NewMean(ema_mean, r.risk_score)
                /\ ema_var' = NewVar(ema_mean, ema_var, r.risk_score)
       ELSE UNCHANGED <<prev_small_gray, ema_mean, ema_var>>
    /\ UNCHANGED <<model_loaded, fallback_mode, production_loaded>>

\* The same within the bound on the number of calls.
PredictCrowdCore(s, f) == calls < MaxCalls /\ PredictCrowdBody(s, f)

predict_crowd(s, f) ==
    /\ PredictCrowdCore(s, f)
    /\ UNCHANGED <<refVars, rpc, rloc>>
    /\ UNCHANGED notPredictor

NextPredictor == \E s \in Streams, f \in Payloads : predict_crowd(s, f)

\* The same call beside the second run: the second predictor is given the
\* call only when the frame is of stream 1.
predict_crowd_two_runs(s, f) ==
    /\ PredictCrowdCore(s, f)
    /\ IF s = 1
       THEN /\ ref_analysis' =
                    CallRecord(s, PredictResult(model_loaded, fallback_mode,
                                                ref_prev_small_gray, ref_ema_mean,
                                                ref_ema_var, f))
            /\ IF f.ok
               THEN LET r == ref_analysis'.result
                    IN  /\ ref_prev_small_gray' = StoredGray(f)
                        /\ ref_ema_mean' = NewMean(ref_ema_mean, r.risk_score)
                        /\ ref_ema_var' = NewVar(ref_ema_mean, ref_ema_var, r.risk_score)
               ELSE UNCHANGED <<ref_prev_small_gray, ref_ema_mean, ref_ema_var>>
       ELSE UNCHANGED refVars
    /\ UNCHANGED <<rpc, rloc>>
    /\ UNCHANGED notPredictor

NextTwoRuns == \E s \in Streams, f \in Payloads : predict_crowd_two_runs(s, f)

\* ------------------------------------------- concurrent predict_crowd calls
Requests == 1..MaxRequests

NoLocals == [stream |-> 0, f |-> Undecodable, base |-> None,
             motion |-> 0, risk |-> 0, delta |-> 0]

RaceInit ==
    /\ rpc = [t \in Requests |-> "idle"]
    /\ rloc = [t \in Requests |-> NoLocals]

\* analyze_frame -> get_predictor().predict_crowd(frame_data): decode and base
\* prediction (the production predictor takes its own prediction_lock for the
\* base prediction only and has released it when it returns).
CallStart(t, s, f) ==
    /\ rpc[t] = "idle"
    /\ IF f.ok
       THEN /\ rpc' = [rpc EXCEPT ![t] = "motion"]
            /\ rloc' = [rloc EXCEPT ![t] =
                    [NoLocals EXCEPT !.stream = s, !.f = f,
                        !.base = BasePrediction(model_loaded, fallback_mode, f)]]
            /\ UNCHANGED analysis
       ELSE /\ rpc' = [rpc EXCEPT ![t] = "done"]
            /\ rloc' = [rloc EXCEPT ![t] = [NoLocals EXCEPT !.stream = s]]
            /\ analysis' = CallRecord(s, PredictResult(model_loaded, fallback_mode,
                                                     prev_small_gray, ema_mean,
                                                     ema_var, f))
    /\ UNCHANGED <<model_loaded, fallback_mode, production_loaded, prev_small_gray, ema_mean,
                   ema_var, calls, refVars>>
    /\ UNCHANGED notPredictor

\* _compute_motion_score: reads self._prev_small_gray and scores the frame.
MotionRead(t) ==
    /\ rpc[t] = "motion"
    /\ rpc' = [rpc EXCEPT ![t] = "motion_store"]
    /\ rloc' = [rloc EXCEPT ![t].motion =
                    compute_motion_score(prev_small_gray, rloc[t].f)]
    /\ UNCHANGED <<predictorVars, refVars>>
    /\ UNCHANGED notPredictor

\* _compute_motion_score: self._prev_small_gray = gray; then the fused risk.
MotionStore(t) ==
    /\ rpc[t] = "motion_store"
    /\ prev_small_gray' = StoredGray(rloc[t].f)
    /\ rpc' = [rpc EXCEPT ![t] = "delta"]
    /\ rloc' = [rloc EXCEPT ![t].risk =
                    FusedRisk(rloc[t].base.people_count,
                              rloc[t].base.confidence_score, rloc[t].motion)]
    /\ UNCHANGED <<model_loaded, fallback_mode, production_loaded, ema_mean, ema_var, calls,
                   analysis, refVars>>
    /\ UNCHANGED notPredictor

\* _update_calibration: delta = risk - self._ema_mean.
CalibDelta(t) ==
    /\ rpc[t] = "delta"
    /\ rpc' = [rpc EXCEPT ![t] = "mean"]
    /\ rloc' = [rloc EXCEPT ![t].delta = rloc[t].risk - ema_mean]
    /\ UNCHANGED <<predictorVars, refVars>>
    /\ UNCHANGED notPredictor

\* _update_calibration: self._ema_mean = (1 - alpha) * self._ema_mean + alpha * risk.
CalibMean(t) ==
    /\ rpc[t] = "mean"
    /\ ema_mean' = NewMean(ema_mean, rloc[t].risk)
    /\ rpc' = [rpc EXCEPT ![t] = "var"]
    /\ UNCHANGED <<model_loaded, fallback_mode, production_loaded, prev_small_gray, ema_var, calls,
                   analysis, refVars, rloc>>
    /\ UNCHANGED notPredictor

\* _update_calibration: self._ema_var = (1 - beta) * self._ema_var + beta * delta^2.
CalibVar(t) ==
    /\ rpc[t] = "var"
    /\ ema_var' = (9 * ema_var + 100 * rloc[t].delta * rloc[t].delta) \div 10
    /\ rpc' = [rpc EXCEPT ![t] = "z"]
    /\ UNCHANGED <<model_loaded, fallback_mode, production_loaded, prev_small_gray, ema_mean, calls,
                   analysis, refVars, rloc>>
    /\ UNCHANGED notPredictor

\* _update_calibration: z-score from the stored mean and variance; predict_crowd
\* then builds and returns its result.
CalibReturn(t) ==
    /\ rpc[t] = "z"
    /\ LET sd == Sqrt(ema_var)
           risk == rloc[t].risk
           z == IF sd = 0 THEN (risk - ema_mean) * 1000000
                ELSE ((risk - ema_mean) * 10000) \div sd
           calibrated == IF z < -709782 THEN risk ELSE Clamp01(Logistic(z))
           base == rloc[t].base
       IN  analysis' =
               CallRecord(rloc[t].stream,
                   [decoded |-> TRUE, crowd_detected |-> base.crowd_detected,
                    confidence_score |-> base.confidence_score,
                    people_count |-> base.people_count,
                    is_stampede_risk |-> (base.is_stampede_risk \/ calibrated >= 750),
                    fallback_mode |-> base.fallback_mode,
                    motion_score |-> rloc[t].motion, risk_score |-> risk,
                    calibrated_risk_score |-> calibrated])
    /\ rpc' = [rpc EXCEPT ![t] = "done"]
    /\ UNCHANGED <<model_loaded, fallback_mode, production_loaded, prev_small_gray, ema_mean, ema_var,
                   calls, refVars, rloc>>
    /\ UNCHANGED notPredictor

NextRace ==
    \/ \E t \in Requests, s \in Streams, f \in Payloads : CallStart(t, s, f)
    \/ \E t \in Requests : MotionRead(t)
    \/ \E t \in Requests : MotionStore(t)
    \/ \E t \in Requests : CalibDelta(t)
    \/ \E t \in Requests : CalibMean(t)
    \/ \E t \in Requests : CalibVar(t)
    \/ \E t \in Requests : CalibReturn(t)

\* ------------------------------------------------- risk level of a frame
\* config.CROWD_THRESHOLDS
normal_max_people == 5
crowded_max_people == 15
stampede_min_people == 20

\* Classifier outputs: probabilities of normal, crowded, stampede, in tenths.
ClassProbs ==
    {c \in [normal : 0..10, crowded : 0..10, stampede : 0..10] :
        c.normal + c.crowded + c.stampede = 10}

\* People counts around every count threshold of the two risk rules.
Counts == {0, 3, 4, 5, 6, 15, 16, 20, 21, 25, 26}

\* frame_area / (100 * 100) of the frames.
FrameAreasM2 == {1, 5, 10, 50}

RiskIdle ==
    /\ risk_in = None
    /\ risk_out = None

RiskInit ==
    /\ risk_in \in [a : ClassProbs, b : ClassProbs, people_count : Counts,
                    frame_area_m2 : FrameAreasM2]
    /\ risk_out = [a |-> None, b |-> None, dict |-> None]

\* CrowdAnalyzer.calculate_crowd_density, in thousandths.
calculate_crowd_density(people_count, frame_area_m2) ==
    Min((people_count * 1000) \div Max(frame_area_m2, 1), 1000)

\* _determine_risk_level with stampede_prob read from the wrong class.
determine_risk_level_wrong_class(classification_pred, people_count, crowd_density) ==
    LET stampede_prob == classification_pred.normal
        crowded_prob == classification_pred.crowded
    IN  IF \/ stampede_prob > 7
           \/ people_count > stampede_min_people
           \/ crowd_density > 800
        THEN "stampede_imminent"
        ELSE IF \/ stampede_prob > 4
                \/ people_count > crowded_max_people
                \/ crowd_density > 600
        THEN "high_risk"
        ELSE IF \/ crowded_prob > 5
                \/ people_count > normal_max_people
                \/ crowd_density > 300
        THEN "crowded"
        ELSE "normal"

\* StampedeInferenceEngine._determine_risk_level
determine_risk_level(classification_pred, people_count, crowd_density) ==
    LET stampede_prob == classification_pred.stampede
        crowded_prob == classification_pred.crowded
    IN  IF \/ stampede_prob > 7
           \/ people_count > stampede_min_people
           \/ crowd_density > 800
        THEN "stampede_imminent"
        ELSE IF \/ stampede_prob > 4
                \/ people_count > crowded_max_people
                \/ crowd_density > 600
        THEN "high_risk"
        ELSE IF \/ crowded_prob > 5
                \/ people_count > normal_max_people
                \/ crowd_density > 300
        THEN "crowded"
        ELSE "normal"

\* The DetectionResult predict_frame builds for a classifier output.
DetectionResult(classification_pred, final_people_count, frame_area_m2) ==
    LET crowd_density == calculate_crowd_density(final_people_count, frame_area_m2)
    IN  [classification_pred |-> classification_pred,
         people_count |-> final_people_count,
         crowd_density |-> crowd_density,
         risk_level |-> determine_risk_level(classification_pred,
                                             final_people_count, crowd_density)]

\* predict_frame on the frame with classifier output k ("a" or "b").
predict_frame_risk(k) ==
    /\ risk_out[k] = None
    /\ risk_out' = [risk_out EXCEPT ![k] =
            DetectionResult(risk_in[k], risk_in.people_count, risk_in.frame_area_m2)]
    /\ UNCHANGED risk_in
    /\ UNCHANGED <<engineVars, predictorVars, refVars, rpc, rloc, det_frame, det_out, restVars>>

\* _recalculate_risk_with_accurate_count leaving the stampede flag unset for
\* a large crowd.
recalculate_risk_flag_unset(prediction_dict, accurate_count, frame_area_m2) ==
    LET crowd_density == calculate_crowd_density(accurate_count, frame_area_m2)
        d == [prediction_dict EXCEPT !.crowd_density = crowd_density]
    IN  IF accurate_count = 0
        THEN [d EXCEPT !.crowd_detected = FALSE, !.is_stampede_risk = FALSE,
                       !.risk_level = "normal"]
        ELSE IF accurate_count <= 5
        THEN [d EXCEPT !.crowd_detected = TRUE, !.is_stampede_risk = FALSE,
                       !.risk_level = "normal"]
        ELSE IF accurate_count <= 15
        THEN [d EXCEPT !.crowd_detected = TRUE, !.is_stampede_risk = FALSE,
                       !.risk_level = "crowded"]
        ELSE IF accurate_count <= 25
        THEN [d EXCEPT !.crowd_detected = TRUE, !.is_stampede_risk = FALSE,
                       !.risk_level = "high_risk"]
        ELSE [d EXCEPT !.crowd_detected = TRUE, !.is_stampede_risk = TRUE,
                       !.risk_level = "stampede_imminent"]

\* ProductionStampedePredictor._recalculate_risk_with_accurate_count
recalculate_risk_with_accurate_count(prediction_dict, accurate_count, frame_area_m2) ==
    LET crowd_density == calculate_crowd_density(accurate_count, frame_area_m2)
        d == [prediction_dict EXCEPT !.crowd_density = crowd_density]
    IN  IF accurate_count = 0
        THEN [d EXCEPT !.crowd_detected = FALSE, !.is_stampede_risk = FALSE,
                       !.risk_level = "normal"]
        ELSE IF accurate_count <= 5
        THEN [d EXCEPT !.crowd_detected = TRUE, !.is_stampede_risk = FALSE,
                       !.risk_level = "normal"]
        ELSE IF accurate_count <= 15
        THEN [d EXCEPT !.crowd_detected = TRUE, !.is_stampede_risk = FALSE,
                       !.risk_level = "crowded"]
        ELSE IF accurate_count <= 25
        THEN [d EXCEPT !.crowd_detected = TRUE, !.is_stampede_risk = TRUE,
                       !.risk_level = "high_risk"]
        ELSE [d EXCEPT !.crowd_detected = TRUE, !.is_stampede_risk = TRUE,
                       !.risk_level = "stampede_imminent"]

\* ProductionStampedePredictor._convert_result_to_dict
convert_result_to_dict(result) ==
    [classification_pred |-> result.classification_pred,
     crowd_detected |-> result.risk_level # "normal",
     people_count |-> result.people_count,
     is_stampede_risk |-> result.risk_level \in {"high_risk", "stampede_imminent"},
     risk_level |-> result.risk_level,
     crowd_density |-> result.crowd_density]

\* ProductionStampedePredictor.predict_crowd with the model loaded: the engine's
\* result for classifier output a, converted, its count replaced by the people
\* detector's and its risk recalculated from that count.
production_predict_risk ==
    /\ risk_out.dict = None
    /\ LET result == DetectionResult(risk_in.a, risk_in.people_count,
                                     risk_in.frame_area_m2)
           prediction_dict == [convert_result_to_dict(result) EXCEPT
                                   !.people_count = risk_in.people_count]
       IN  risk_out' = [risk_out EXCEPT !.dict =
               recalculate_risk_with_accurate_count(prediction_dict,
                   risk_in.people_count, risk_in.frame_area_m2)]
    /\ UNCHANGED risk_in
    /\ UNCHANGED <<engineVars, predictorVars, refVars, rpc, rloc, det_frame, det_out, restVars>>

NextRisk ==
    \/ predict_frame_risk("a")
    \/ predict_frame_risk("b")
    \/ production_predict_risk

\* ------------------------------------------------ people count of a frame
\* ImprovedPeopleDetector parameters (defaults), thresholds in thousandths.
confidence_threshold == 500
nms_threshold == 400
min_detection_size == [w |-> 30, h |-> 50]
max_detection_size == [w |-> 300, h |-> 400]

\* image.shape of the frames.
ImageShape == [h |-> 480, w |-> 640]

\* Bounding boxes (x, y, w, h): a person, a box beside it that does not touch
\* it, one shifted by a quarter of its width, a distant one, one at the image
\* edge, and two tall boxes overlapping by exactly the NMS threshold.
Boxes == {[x |-> 100, y |-> 100, w |-> 40, h |-> 60],
          [x |-> 141, y |-> 100, w |-> 40, h |-> 60],
          [x |-> 110, y |-> 100, w |-> 40, h |-> 60],
          [x |-> 400, y |-> 300, w |-> 40, h |-> 60],
          [x |-> 2, y |-> 100, w |-> 40, h |-> 60],
          [x |-> 300, y |-> 100, w |-> 40, h |-> 70],
          [x |-> 300, y |-> 130, w |-> 40, h |-> 70]}

\* Detection confidences: below the confidence threshold, a body detection's
\* and a face detection's.
DetConfs == {400, 600, 800}

Detections == [bbox : Boxes, confidence : DetConfs]

DetIdle ==
    /\ det_frame = None
    /\ det_out = None

DetInit ==
    /\ det_frame \in [detections : UNION {[1..n -> Detections] : n \in 0..MaxDets},
                      people_count_pred : {0, 1, 3},
                      face_count : 0..MaxDets]
    /\ det_out = [people_result |-> None, result |-> None, dict |-> None]

\* PassesFilter rejecting a box whose height is exactly 1.2 times its width.
PassesFilterStrictAspect(detection, image_shape) ==
    LET b == detection.bbox
    IN  /\ ~(detection.confidence < confidence_threshold)
        /\ ~(b.w < min_detection_size.w \/ b.h < min_detection_size.h)
        /\ ~(b.w > max_detection_size.w \/ b.h > max_detection_size.h)
        /\ ~(b.x < 5 \/ b.y < 5 \/ b.x + b.w > image_shape.w - 5
                \/ b.y + b.h > image_shape.h - 5)
        /\ ~(10 * b.h <= 12 * b.w)

\* ImprovedPeopleDetector._filter_detections: the test one detection passes.
PassesFilter(detection, image_shape) ==
    LET b == detection.bbox
    IN  /\ ~(detection.confidence < confidence_threshold)
        /\ ~(b.w < min_detection_size.w \/ b.h < min_detection_size.h)
        /\ ~(b.w > max_detection_size.w \/ b.h > max_detection_size.h)
        /\ ~(b.x < 5 \/ b.y < 5 \/ b.x + b.w > image_shape.w - 5
                \/ b.y + b.h > image_shape.h - 5)
        /\ ~(10 * b.h < 12 * b.w)

\* ImprovedPeopleDetector._filter_detections
filter_detections(detections, image_shape) ==
    SelectSeq(detections, LAMBDA d : PassesFilter(d, image_shape))

\* cv2.dnn.NMSBoxes reads each box as a rectangle (x, y, width, height): the
\* area of the intersection of two of them.
RectIntersection(a, b) ==
    LET iw == Min(a[1] + a[3], b[1] + b[3]) - Max(a[1], b[1])
        ih == Min(a[2] + a[4], b[2] + b[4]) - Max(a[2], b[2])
    IN  IF iw > 0 /\ ih > 0 THEN iw * ih ELSE 0

\* cv2.dnn.NMSBoxes: the overlap (intersection over union) of two rectangles
\* exceeds the threshold, in thousandths.
OverlapExceeds(a, b, threshold) ==
    LET inter == RectIntersection(a, b)
        union == a[3] * a[4] + b[3] * b[4] - inter
    IN  IF union <= 0 THEN 1000 > threshold
        ELSE inter * 1000 > threshold * union

\* cv2.dnn.NMSBoxes: the indices in S by score descending, ties in input order.
RECURSIVE ScoreOrder(_, _)
ScoreOrder(S, scores) ==
    IF S = {} THEN <<>>
    ELSE LET i == CHOOSE i \in S : \A j \in S :
                      \/ scores[i] > scores[j]
                      \/ scores[i] = scores[j] /\ i <= j
         IN  <<i>> \o ScoreOrder(S \ {i}, scores)

\* cv2.dnn.NMSBoxes: greedy pass over the ordered indices.
RECURSIVE GreedyKeep(_, _, _, _)
GreedyKeep(order, kept, boxes, threshold) ==
    IF order = <<>> THEN kept
    ELSE LET i == Head(order)
             keep == \A k \in 1..Len(kept) :
                         ~OverlapExceeds(boxes[i], boxes[kept[k]], threshold)
         IN  GreedyKeep(Tail(order), IF keep THEN Append(kept, i) ELSE kept,
                        boxes, threshold)

\* cv2.dnn.NMSBoxes(bboxes, scores, score_threshold, nms_threshold)
NMSBoxes(boxes, scores, score_threshold, threshold) ==
    GreedyKeep(ScoreOrder({i \in 1..Len(boxes) : scores[i] > score_threshold}, scores),
               <<>>, boxes, threshold)

\* ImprovedPeopleDetector._apply_nms
apply_nms(detections) ==
    IF Len(detections) <= 1 THEN detections
    ELSE LET boxes == [i \in 1..Len(detections) |->
                          LET b == detections[i].bbox
                          IN  <<b.x, b.y, b.x + b.w, b.y + b.h>>]
             scores == [i \in 1..Len(detections) |-> detections[i].confidence]
             indices == NMSBoxes(boxes, scores, confidence_threshold, nms_threshold)
         IN  [k \in 1..Len(indices) |-> detections[indices[k]]]

\* The PeopleCountResult detect_people builds for a frame.
PeopleCountResult(all_detections, image_shape) ==
    LET filtered_detections == filter_detections(all_detections, image_shape)
        final_detections == apply_nms(filtered_detections)
    IN  [people_count |-> Len(final_detections),
         detections |-> final_detections,
         filtered |-> filtered_detections,
         raw_detections |-> Len(all_detections),
         filtered_detections |-> Len(filtered_detections)]

\* ImprovedPeopleDetector.detect_people
detect_people ==
    /\ det_out.people_result = None
    /\ det_out' = [det_out EXCEPT !.people_result =
                       PeopleCountResult(det_frame.detections, ImageShape)]
    /\ UNCHANGED det_frame
    /\ UNCHANGED <<engineVars, predictorVars, refVars, rpc, rloc, risk_in, risk_out, restVars>>

\* StampedeInferenceEngine.predict_frame: the people count of its result.
predict_frame_count ==
    /\ det_out.result = None
    /\ det_out' = [det_out EXCEPT !.result =
            [people_count |-> Max(det_frame.people_count_pred, det_frame.face_count)]]
    /\ UNCHANGED det_frame
    /\ UNCHANGED <<engineVars, predictorVars, refVars, rpc, rloc, risk_in, risk_out, restVars>>

\* ProductionStampedePredictor.predict_crowd: the counts of its result, with
\* the model loaded and in fallback mode alike.
production_predict_count ==
    /\ det_out.dict = None
    /\ LET people_result == PeopleCountResult(det_frame.detections, ImageShape)
       IN  det_out' = [det_out EXCEPT !.dict =
               [people_count |-> people_result.people_count,
                raw_detections |-> people_result.raw_detections,
                filtered_detections |-> people_result.filtered_detections]]
    /\ UNCHANGED det_frame
    /\ UNCHANGED <<engineVars, predictorVars, refVars, rpc, rloc, risk_in, risk_out, restVars>>

NextDetect ==
    \/ detect_people
    \/ predict_frame_count
    \/ production_predict_count

\* ------------------------------------------------------ calibration alone
\* fused_risk values fed to _update_calibration.
Risks == {0, 1, 250, 500, 750, 999, 1000}

\* Calibration states: the constructed one, and those a long run of one
\* constant risk leaves behind (mean at the risk, variance decayed to zero).
CalibStates ==
    {[mean |-> 500, var |-> 5000000]} \cup [mean : {0, 500, 1000}, var : {0, 1}]

CalibrateIdle == calibrate_ret = None

\* FixedAIPredictor._update_calibration(risk) called on its own.
calibrate(risk) ==
    /\ calls < MaxCalls
    /\ calls' = calls + 1
    /\ calibrate_ret' = [risk |-> risk,
                         sd |-> Sqrt(NewVar(ema_mean, ema_var, risk)),
                         calibrated |-> update_calibration(ema_mean, ema_var, risk)]
    /\ ema_mean' = NewMean(ema_mean, risk)
    /\ ema_var' = NewVar(ema_mean, ema_var, risk)
    /\ UNCHANGED <<model_loaded, fallback_mode, production_loaded, prev_small_gray, analysis>>
    /\ UNCHANGED <<engineVars, refVars, rpc, rloc, risk_in, risk_out,
                   det_frame, det_out, file_ret, streams, db_results, alerts,
                   response>>
    /\ UNCHANGED extraVars

NextCalibrate == \E risk \in Risks : calibrate(risk)

\* -------------------------------------------------------------- file path
\* Uploaded files: missing, or an image that does not open, is too small or
\* too large, opens but cannot be read through, or is a good image. A good
\* image carries the count and confidence the analysis finds or draws for
\* it, and whether the production predictor's inference throws on it.
Files ==
    {[exists |-> FALSE]} \cup
    [exists : {TRUE}, image : {"invalid", "small", "large", "truncated", "ok"},
     people : Peoples, conf : Confs, classifier_throws : BOOLEAN]

FileIdle == file_ret = None

\* predict_from_file: its error returns.
FileError(error) == [error |-> error, success |-> FALSE, fallback_mode |-> TRUE]

\* _enhanced_fallback_analysis, and its own except branch when the image
\* cannot be read through.
enhanced_fallback_analysis(f) ==
    IF f.image = "truncated"
    THEN [success |-> TRUE, crowd_detected |-> TRUE, confidence_score |-> 600,
          people_count |-> 1 + (f.people % 5), is_stampede_risk |-> FALSE,
          fallback_mode |-> TRUE]
    ELSE [success |-> TRUE, crowd_detected |-> f.people >= 3,
          confidence_score |-> f.conf, people_count |-> f.people,
          is_stampede_risk |-> (f.people >= 8 /\ f.conf > 750),
          fallback_mode |-> TRUE]

\* ProductionStampedePredictor.predict_from_file: cv2.imread, predict_crowd;
\* a throwing inference and an unreadable image end in _fallback_prediction.
production_predict_from_file(f) ==
    IF f.image = "truncated" \/ (production_loaded /\ f.classifier_throws)
    THEN [crowd_detected |-> f.people >= 3, confidence_score |-> f.conf,
          people_count |-> f.people, is_stampede_risk |-> FALSE,
          risk_level |-> IF f.people >= 3 THEN "crowded" ELSE "normal",
          fallback_mode |-> TRUE]
    ELSE LET base == production_predict_crowd(f)
         IN  [crowd_detected |-> base.crowd_detected,
              confidence_score |-> base.confidence_score,
              people_count |-> base.people_count,
              is_stampede_risk |-> base.is_stampede_risk,
              risk_level |-> IF f.people = 0 \/ f.people <= 5 THEN "normal"
                             ELSE IF f.people <= 15 THEN "crowded"
                             ELSE IF f.people <= 25 THEN "high_risk"
                             ELSE "stampede_imminent",
              fallback_mode |-> base.fallback_mode]

\* FixedAIPredictor.predict_from_file: the returned dict.
PredictFromFileResult(f) ==
    IF ~f.exists THEN FileError("File not found")
    ELSE IF f.image = "invalid" THEN FileError("Invalid image file")
    ELSE IF f.image = "small" THEN FileError("Image too small")
    ELSE IF f.image = "large" THEN FileError("Image too large")
    ELSE IF ~fallback_mode /\ model_loaded
    THEN LET result == production_predict_from_file(f)
         IN  [crowd_detected |-> result.crowd_detected,
              confidence_score |-> result.confidence_score,
              people_count |-> result.people_count,
              is_stampede_risk |-> result.is_stampede_risk,
              risk_level |-> result.risk_level,
              success |-> TRUE, fallback_mode |-> FALSE]
    ELSE enhanced_fallback_analysis(f)

\* FixedAIPredictor.predict_from_file(file_path)
predict_from_file(f) ==
    /\ calls < MaxCalls
    /\ calls' = calls + 1
    /\ file_ret' = [file |-> f, result |-> PredictFromFileResult(f)]
    /\ UNCHANGED <<model_loaded, fallback_mode, production_loaded, prev_small_gray,
                   ema_mean, ema_var, analysis>>
    /\ UNCHANGED <<engineVars, refVars, rpc, rloc, risk_in, risk_out,
                   det_frame, det_out, calibrate_ret, streams, db_results, alerts,
                   response>>
    /\ UNCHANGED extraVars

NextFile == \E f \in Files : predict_from_file(f)

\* Detections on and just beyond each limit of the filter: confidence, minimum
\* and maximum size, the 5-pixel border, and the aspect ratio.
Det(x, y, w, h, confidence) ==
    [bbox |-> [x |-> x, y |-> y, w |-> w, h |-> h], confidence |-> confidence]

FilterDetections ==
    {Det(100, 100, 40, 60, 800),
     Det(100, 100, 40, 60, 500), Det(100, 100, 40, 60, 499),
     Det(100, 100, 30, 50, 800), Det(100, 100, 29, 50, 800),
     Det(100, 100, 30, 49, 800),
     Det(5, 5, 300, 400, 800), Det(5, 5, 301, 400, 800),
     Det(5, 5, 300, 401, 800),
     Det(4, 100, 40, 60, 800), Det(100, 4, 40, 60, 800),
     Det(595, 100, 40, 60, 800), Det(596, 100, 40, 60, 800),
     Det(100, 415, 40, 60, 800), Det(100, 416, 40, 60, 800),
     Det(100, 100, 50, 60, 800), Det(100, 100, 50, 59, 800)}

FilterInit ==
    /\ det_frame \in [detections : UNION {[1..n -> FilterDetections] : n \in 0..MaxDets},
                      people_count_pred : {0},
                      face_count : {0}]
    /\ det_out = [people_result |-> None, result |-> None, dict |-> None]

NextFilter == detect_people

\* ------------------------------------------------------------ tune_parameters
\* The grid of tune_parameters, in the order of its two loops.
confidence_thresholds == <<300, 400, 500, 600, 700>>
nms_thresholds == <<200, 300, 400, 500, 600>>

TunePairs ==
    [k \in 1..25 |-> [confidence_threshold |-> confidence_thresholds[((k - 1) \div 5) + 1],
                      nms_threshold |-> nms_thresholds[((k - 1) % 5) + 1]]]

\* detect_people with the detector's thresholds set to the pair: the filter's
\* confidence test and NMSBoxes read them.
people_count_with(detections, image_shape, pair) ==
    LET filtered == SelectSeq(detections, LAMBDA d :
                        /\ ~(d.confidence < pair.confidence_threshold)
                        /\ PassesFilter([d EXCEPT !.confidence = 1000], image_shape))
        boxes == [i \in 1..Len(filtered) |->
                     LET b == filtered[i].bbox
                     IN  <<b.x, b.y, b.x + b.w, b.y + b.h>>]
        scores == [i \in 1..Len(filtered) |-> filtered[i].confidence]
    IN  IF Len(filtered) <= 1 THEN Len(filtered)
        ELSE Len(NMSBoxes(boxes, scores, pair.confidence_threshold, pair.nms_threshold))

\* tune_parameters: correct_predictions of a pair on the test set.
correct_predictions(pair, tests) ==
    Cardinality({i \in 1..Len(tests) :
        Abs(people_count_with(tests[i].detections, ImageShape, pair)
              - tests[i].true_count) <= 1})

\* tune_parameters: the pair its loops leave in best_params, 0 for None: the
\* first whose accuracy is above every earlier one and above 0.
BestPair(tests) ==
    LET better == {k \in 1..25 :
                     /\ correct_predictions(TunePairs[k], tests) > 0
                     /\ \A j \in 1..25 :
                          \/ correct_predictions(TunePairs[j], tests)
                                < correct_predictions(TunePairs[k], tests)
                          \/ (correct_predictions(TunePairs[j], tests)
                                = correct_predictions(TunePairs[k], tests) /\ k <= j)}
    IN  IF better = {} THEN 0 ELSE CHOOSE k \in better : TRUE

\* Test images by their raw detections: none, one weak detection, one strong
\* detection, and two strong detections side by side.
TuneImages ==
    {<<>>,
     <<Det(100, 100, 40, 60, 450)>>,
     <<Det(100, 100, 40, 60, 800)>>,
     <<Det(100, 100, 40, 60, 800), Det(400, 300, 40, 60, 800)>>}

TrueCounts == {0, 3, 10}

DefaultParams == [confidence_threshold |-> confidence_threshold,
                  nms_threshold |-> nms_threshold]

TuneIdle ==
    /\ tune_in = None
    /\ tune_ret = None
    /\ detector_params = DefaultParams

TuneInit ==
    /\ tune_in \in UNION {[1..n -> [detections : TuneImages, true_count : TrueCounts]] :
                            n \in 0..MaxImages}
    /\ tune_ret = None
    /\ detector_params = DefaultParams

\* ImprovedPeopleDetector.tune_parameters(test_images, ground_truth_counts):
\* with no test image the division by total_predictions raises inside the
\* first pass, after the first pair was set.
tune_parameters ==
    /\ tune_ret = None
    /\ IF Len(tune_in) = 0
       THEN /\ tune_ret' = [raised |-> "ZeroDivisionError", best_params |-> None]
            /\ detector_params' = TunePairs[1]
       ELSE LET best == BestPair(tune_in)
            IN  IF best = 0
                THEN /\ tune_ret' = [raised |-> "no", best_params |-> None,
                                     correct |-> 0]
                     /\ detector_params' = TunePairs[25]
                ELSE /\ tune_ret' = [raised |-> "no", best_params |-> TunePairs[best],
                                     correct |-> correct_predictions(TunePairs[best],
                                                                     tune_in)]
                     /\ detector_params' = TunePairs[best]
    /\ UNCHANGED tune_in
    /\ UNCHANGED <<engineVars, predictorVars, refVars, rpc, rloc, risk_in, risk_out,
                   det_frame, det_out, calibrate_ret, file_ret, streams, db_results,
                   alerts, response, mediaVars, productionVars>>

NextTune == tune_parameters

\* ------------------------------------------------------------------ views
\* Stream ids of requests: the live streams and one id that does not exist.
RequestedStreams == Streams \cup {3}

\* frame_data of a request: absent, or a payload.
NoFrameData == [absent |-> TRUE]

ViewFrames ==
    {NoFrameData, Undecodable,
     [ok |-> TRUE, shape |-> 1, gray |-> 0, people |-> 2, conf |-> 800],
     [ok |-> TRUE, shape |-> 1, gray |-> 10, people |-> 8, conf |-> 800]}

ViewFiles ==
    {[exists |-> FALSE]} \cup
    [exists : {TRUE}, image : {"ok"}, people : {2, 8}, conf : {800},
     classifier_throws : {FALSE}]

ViewInit ==
    /\ streams = [s \in Streams |-> [status |-> "inactive", current_people_count |-> 0]]
    /\ db_results = <<>>
    /\ alerts = <<>>
    /\ response = None

\* The last n elements of a sequence.
LastN(seq, n) ==
    IF Len(seq) <= n THEN seq ELSE SubSeq(seq, Len(seq) - n + 1, Len(seq))

\* analyze_frame smoothing with a threshold of one risky result.
smoothed_risk_flag_any(rows, s) ==
    LET recent_results == LastN(SelectSeq(rows, LAMBDA r : r.live_stream = s), 5)
        risks == Cardinality({i \in 1..Len(recent_results) :
                                  recent_results[i].is_stampede_risk})
    IN  risks >= 1

\* analyze_frame: temporal smoothing of the risk flag over the stream's five
\* most recent results.
smoothed_risk_flag(rows, s) ==
    LET recent_results == LastN(SelectSeq(rows, LAMBDA r : r.live_stream = s), 5)
        risks == Cardinality({i \in 1..Len(recent_results) :
                                  recent_results[i].is_stampede_risk})
    IN  risks >= Max(2, Len(recent_results) \div 2)

\* analyze_frame alerting only when both flags are set.
ShouldAlertBoth(is_stampede_risk, smoothed) == is_stampede_risk /\ smoothed

\* analyze_frame: if analysis['is_stampede_risk'] or smoothed_risk_flag
ShouldAlert(is_stampede_risk, smoothed) == is_stampede_risk \/ smoothed

\* views.analyze_frame
analyze_frame(s, d) ==
    /\ IF d = NoFrameData
       THEN /\ response' = [op |-> "analyze_frame", stream |-> s,
                            frame |-> "absent", status |-> 400]
            /\ UNCHANGED <<predictorVars, streams, db_results, alerts>>
       ELSE IF s \notin Streams
       THEN /\ response' = [op |-> "analyze_frame", stream |-> s,
                            frame |-> "given", status |-> 404]
            /\ UNCHANGED <<predictorVars, streams, db_results, alerts>>
       ELSE /\ PredictCrowdBody(s, d)
            /\ LET a == analysis'.result
                   rows == Append(db_results,
                               [live_stream |-> s, people_count |-> a.people_count,
                                is_stampede_risk |-> a.is_stampede_risk])
               IN  /\ streams' = [streams EXCEPT ![s].current_people_count =
                                      a.people_count]
                   /\ db_results' = rows
                   /\ alerts' =
                        IF ShouldAlert(a.is_stampede_risk, smoothed_risk_flag(rows, s))
                        THEN Append(alerts,
                                 [analysis_result |-> Len(rows), live_stream |-> s,
                                  severity |-> IF a.is_stampede_risk
                                               THEN "critical" ELSE "high"])
                        ELSE alerts
            /\ response' = [op |-> "analyze_frame", stream |-> s,
                            frame |-> IF d.ok THEN "decoded" ELSE "malformed",
                            status |-> 200]
    /\ UNCHANGED <<calibrate_ret, file_ret>>
    /\ UNCHANGED <<engineVars, refVars, rpc, rloc, risk_in, risk_out,
                   det_frame, det_out>>
    /\ UNCHANGED extraVars

\* The view setting a stream's status: start_stream and stop_stream.
SetStreamStatus(op, s, value) ==
    /\ IF s \in Streams
       THEN /\ streams' = [streams EXCEPT ![s].status = value]
            /\ response' = [op |-> op, stream |-> s, status |-> 200]
       ELSE /\ response' = [op |-> op, stream |-> s, status |-> 404]
            /\ UNCHANGED streams
    /\ UNCHANGED <<predictorVars, db_results, alerts, calibrate_ret, file_ret>>
    /\ UNCHANGED <<engineVars, refVars, rpc, rloc, risk_in, risk_out,
                   det_frame, det_out>>
    /\ UNCHANGED extraVars

\* views.start_stream
start_stream(s) == SetStreamStatus("start_stream", s, "active")

\* views.stop_stream
stop_stream(s) == SetStreamStatus("stop_stream", s, "inactive")

\* views.analyze_media_async
analyze_media_async(f) ==
    /\ calls < MaxCalls
    /\ calls' = calls + 1
    /\ LET a == PredictFromFileResult(f)
       IN  /\ file_ret' = [file |-> f, result |-> a]
           /\ IF ~a.success
              THEN /\ response' = [op |-> "analyze_media", stream |-> 0,
                                   status |-> "failed"]
                   /\ UNCHANGED <<db_results, alerts>>
              ELSE /\ response' = [op |-> "analyze_media", stream |-> 0,
                                   status |-> "completed"]
                   /\ db_results' = Append(db_results,
                           [live_stream |-> 0, people_count |-> a.people_count,
                            is_stampede_risk |-> a.is_stampede_risk])
                   /\ alerts' =
                        IF a.is_stampede_risk
                        THEN Append(alerts,
                                 [analysis_result |-> Len(db_results) + 1,
                                  live_stream |-> 0, severity |-> "high"])
                        ELSE alerts
    /\ UNCHANGED <<model_loaded, fallback_mode, production_loaded, prev_small_gray,
                   ema_mean, ema_var, analysis, streams, calibrate_ret>>
    /\ UNCHANGED <<engineVars, refVars, rpc, rloc, risk_in, risk_out,
                   det_frame, det_out>>
    /\ UNCHANGED extraVars

NextView ==
    \/ \E s \in RequestedStreams, d \in ViewFrames :
          calls < MaxCalls /\ analyze_frame(s, d)
    \/ \E s \in RequestedStreams : start_stream(s)
    \/ \E s \in RequestedStreams : stop_stream(s)
    \/ \E f \in ViewFiles : analyze_media_async(f)

\* analyze_frame alone, on more frames of the live streams than the smoothing
\* window holds.
SmoothingFrames == {d \in ViewFrames : d # NoFrameData /\ d.ok}

NextSmoothing ==
    \E s \in Streams, d \in SmoothingFrames :
        calls < MaxWindow /\ analyze_frame(s, d)

\* ----------------------------------------------------------- media uploads
\* upload_media and the thread it starts, analyze_media_async, step by step.
\* A write to the database may raise; the code catches it in its handlers.
Uploads == 1..MaxUploads

\* A request without a file.
NoFile == [absent |-> TRUE]

MediaInit ==
    /\ uploads = [u \in Uploads |-> None]
    /\ mpc = [u \in Uploads |-> "idle"]
    /\ manalysis = [u \in Uploads |-> None]

\* analyze_media_async: the analysis dict of its inner except branch.
ErrorAnalysis ==
    [success |-> FALSE, error |-> "AI system unavailable",
     crowd_detected |-> FALSE, confidence_score |-> 0, people_count |-> 0,
     is_stampede_risk |-> FALSE, fallback_mode |-> TRUE]

mediaRest ==
    <<engineVars, predictorVars, refVars, rpc, rloc, risk_in, risk_out,
      det_frame, det_out, calibrate_ret, file_ret, streams>>

\* views.upload_media: 400 without a file; else the row is saved with the
\* default status and the analysis thread is started.
upload_media(u, f) ==
    /\ uploads[u] = None
    /\ \A v \in Uploads : v < u => uploads[v] # None
    /\ IF f = NoFile
       THEN /\ response' = [op |-> "upload_media", stream |-> 0, status |-> 400]
            /\ UNCHANGED <<uploads, mpc>>
       ELSE /\ response' = [op |-> "upload_media", stream |-> 0, status |-> 201]
            /\ uploads' = [uploads EXCEPT ![u] =
                    [file |-> f, analysis_status |-> "pending",
                     analysis_result |-> None]]
            /\ mpc' = [mpc EXCEPT ![u] = "start"]
    /\ UNCHANGED <<manalysis, db_results, alerts>>
    /\ UNCHANGED <<mediaRest, productionVars, tuneVars>>

\* analyze_media_async: analysis_status = 'processing'; save().
MediaProcessing(u) ==
    /\ mpc[u] = "start"
    /\ uploads' = [uploads EXCEPT ![u].analysis_status = "processing"]
    /\ mpc' = [mpc EXCEPT ![u] = "predict"]
    /\ UNCHANGED <<manalysis, db_results, alerts, response>>
    /\ UNCHANGED <<mediaRest, productionVars, tuneVars>>

\* analyze_media_async: get_predictor().predict_from_file(path); when it
\* raises, the inner except builds the error analysis and the code goes on to
\* complete; when it returns success False, the failed status is saved next.
MediaPredict(u, raises) ==
    /\ mpc[u] = "predict"
    /\ LET a == IF raises THEN ErrorAnalysis
                ELSE PredictFromFileResult(uploads[u].file)
       IN  /\ manalysis' = [manalysis EXCEPT ![u] = a]
           /\ mpc' = [mpc EXCEPT ![u] =
                    IF ~raises /\ ~a.success THEN "save_failed" ELSE "complete"]
    /\ UNCHANGED <<uploads, db_results, alerts, response>>
    /\ UNCHANGED <<mediaRest, productionVars, tuneVars>>

\* analyze_media_async: analysis_status = 'failed'; analysis_result = analysis;
\* save(); return.
MediaSaveFailed(u) ==
    /\ mpc[u] = "save_failed"
    /\ uploads' = [uploads EXCEPT ![u].analysis_status = "failed",
                                  ![u].analysis_result = manalysis[u]]
    /\ mpc' = [mpc EXCEPT ![u] = "done"]
    /\ UNCHANGED <<manalysis, db_results, alerts, response>>
    /\ UNCHANGED <<mediaRest, productionVars, tuneVars>>

\* analyze_media_async: analysis_status = 'completed'; the analysis fields;
\* analysis_result = analysis; save().
MediaComplete(u) ==
    /\ mpc[u] = "complete"
    /\ uploads' = [uploads EXCEPT ![u].analysis_status = "completed",
                                  ![u].analysis_result = manalysis[u]]
    /\ mpc' = [mpc EXCEPT ![u] = "create"]
    /\ UNCHANGED <<manalysis, db_results, alerts, response>>
    /\ UNCHANGED <<mediaRest, productionVars, tuneVars>>

\* analyze_media_async: AnalysisResult.objects.create and, for a risky
\* analysis, Alert.objects.create.
MediaCreate(u) ==
    /\ mpc[u] = "create"
    /\ LET a == manalysis[u]
       IN  /\ db_results' = Append(db_results,
                   [live_stream |-> 0, people_count |-> a.people_count,
                    is_stampede_risk |-> a.is_stampede_risk])
           /\ alerts' = IF a.is_stampede_risk
                        THEN Append(alerts,
                                 [analysis_result |-> Len(db_results) + 1,
                                  live_stream |-> 0, severity |-> "high"])
                        ELSE alerts
    /\ mpc' = [mpc EXCEPT ![u] = "done"]
    /\ UNCHANGED <<uploads, manalysis, response>>
    /\ UNCHANGED <<mediaRest, productionVars, tuneVars>>

\* A database call of the thread raises: control goes to the outer except.
MediaRaises(u) ==
    /\ mpc[u] \in {"start", "save_failed", "complete", "create"}
    /\ mpc' = [mpc EXCEPT ![u] = "handler"]
    /\ UNCHANGED <<uploads, manalysis, db_results, alerts, response>>
    /\ UNCHANGED <<mediaRest, productionVars, tuneVars>>

\* analyze_media_async, outer except: the row is read again, marked failed
\* and saved.
MediaHandler(u) ==
    /\ mpc[u] = "handler"
    /\ uploads' = [uploads EXCEPT ![u].analysis_status = "failed"]
    /\ mpc' = [mpc EXCEPT ![u] = "done"]
    /\ UNCHANGED <<manalysis, db_results, alerts, response>>
    /\ UNCHANGED <<mediaRest, productionVars, tuneVars>>

\* analyze_media_async, outer except: that save raises too and is passed over.
MediaHandlerRaises(u) ==
    /\ mpc[u] = "handler"
    /\ mpc' = [mpc EXCEPT ![u] = "done"]
    /\ UNCHANGED <<uploads, manalysis, db_results, alerts, response>>
    /\ UNCHANGED <<mediaRest, productionVars, tuneVars>>

\* The steps of the analysis thread of upload u.
MediaThread(u) ==
    \/ MediaProcessing(u)
    \/ \E raises \in BOOLEAN : MediaPredict(u, raises)
    \/ MediaSaveFailed(u)
    \/ MediaComplete(u)
    \/ MediaCreate(u)
    \/ MediaRaises(u)
    \/ MediaHandler(u)
    \/ MediaHandlerRaises(u)

NextMedia ==
    \/ \E u \in Uploads, f \in {NoFile} \cup ViewFiles : upload_media(u, f)
    \/ \E u \in Uploads : MediaThread(u)

\* ------------------------------------------- ProductionStampedePredictor
\* Its model-loading state under load_model and reload_models.
ModelPaths == {[path |-> "best_model.h5"], [path |-> "missing.h5"]}

Loaded == [model_loaded |-> TRUE, fallback_mode |-> FALSE]

\* ProductionStampedePredictor._enable_fallback_mode
enable_fallback_mode == [model_loaded |-> FALSE, fallback_mode |-> TRUE]

\* ProductionStampedePredictor._initialize_models: the flags it leaves, given
\* whether model files are found, whether the engine loads them and whether
\* anything raises on the way.
initialize_models(found, loads_ok, raises) ==
    IF raises THEN enable_fallback_mode
    ELSE IF found
         THEN IF loads_ok THEN Loaded ELSE enable_fallback_mode
         ELSE enable_fallback_mode

Outcomes == [found : BOOLEAN, loads_ok : BOOLEAN, raises : BOOLEAN]

ProductionFlags == [model_loaded |-> prod_model_loaded,
                    fallback_mode |-> prod_fallback_mode]

ProductionIdle ==
    /\ prod_model_loaded = FALSE
    /\ prod_fallback_mode = TRUE
    /\ prod_model_path = None
    /\ prod_pc = "idle"
    /\ loads = 0
    /\ load_ret = None
    /\ prod_ret = None

\* ProductionStampedePredictor.__init__: both flags False, then
\* _initialize_models.
ProductionInit ==
    /\ \E o \in Outcomes :
          LET flags == initialize_models(o.found, o.loads_ok, o.raises)
          IN  /\ prod_model_loaded = flags.model_loaded
              /\ prod_fallback_mode = flags.fallback_mode
    /\ prod_model_path = None
    /\ prod_pc = "idle"
    /\ loads = 0
    /\ load_ret = None
    /\ prod_ret = None

productionRest ==
    <<engineVars, predictorVars, refVars, rpc, rloc, risk_in, risk_out,
      det_frame, det_out, calibrate_ret, file_ret, streams, db_results,
      alerts, response, mediaVars, tuneVars>>

\* load_model whose failed load enables fallback mode, as its except branch
\* does.
load_model_failure_falls_back(model_path, o) ==
    /\ prod_pc = "idle"
    /\ loads < MaxLoads
    /\ loads' = loads + 1
    /\ LET initialized == initialize_models(o.found, o.loads_ok, o.raises)
           success == IF model_path # None THEN o.loads_ok
                      ELSE initialized.model_loaded
           flags == IF success THEN Loaded ELSE enable_fallback_mode
       IN  /\ prod_model_loaded' = flags.model_loaded
           /\ prod_fallback_mode' = flags.fallback_mode
           /\ prod_model_path' = IF success THEN model_path ELSE prod_model_path
           /\ load_ret' = [op |-> "load_model", call |-> loads', model_path |-> model_path,
                           success |-> success, before |-> ProductionFlags,
                           after |-> flags]
    /\ UNCHANGED prod_pc
    /\ UNCHANGED prod_ret
    /\ UNCHANGED productionRest

\* ProductionStampedePredictor.load_model(model_path): with a path, the
\* engine's load_models, which returns False on any failure; without one,
\* _initialize_models.  The flags are set on success only.
load_model(model_path, o) ==
    /\ prod_pc = "idle"
    /\ loads < MaxLoads
    /\ loads' = loads + 1
    /\ LET initialized == IF model_path # None THEN ProductionFlags
                          ELSE initialize_models(o.found, o.loads_ok, o.raises)
           success == IF model_path # None THEN o.loads_ok
                      ELSE initialized.model_loaded
           flags == IF success THEN Loaded ELSE initialized
       IN  /\ prod_model_loaded' = flags.model_loaded
           /\ prod_fallback_mode' = flags.fallback_mode
           /\ prod_model_path' = IF success THEN model_path ELSE prod_model_path
           /\ load_ret' = [op |-> "load_model", call |-> loads', model_path |-> model_path,
                           success |-> success, before |-> ProductionFlags,
                           after |-> flags]
    /\ UNCHANGED prod_pc
    /\ UNCHANGED prod_ret
    /\ UNCHANGED productionRest

\* reload_models: both flags are reset.
ReloadReset ==
    /\ prod_pc = "idle"
    /\ loads < MaxLoads
    /\ loads' = loads + 1
    /\ prod_model_loaded' = FALSE
    /\ prod_fallback_mode' = FALSE
    /\ prod_pc' = "reloading"
    /\ load_ret' = [op |-> "reload_models", call |-> loads', model_path |-> None,
                    success |-> FALSE, before |-> ProductionFlags,
                    after |-> None]
    /\ UNCHANGED prod_model_path
    /\ UNCHANGED prod_ret
    /\ UNCHANGED productionRest

\* reload_models: _initialize_models; return self.model_loaded.
ReloadInitialize(o) ==
    /\ prod_pc = "reloading"
    /\ LET flags == initialize_models(o.found, o.loads_ok, o.raises)
       IN  /\ prod_model_loaded' = flags.model_loaded
           /\ prod_fallback_mode' = flags.fallback_mode
           /\ load_ret' = [load_ret EXCEPT !.success = flags.model_loaded,
                                           !.after = flags]
    /\ prod_pc' = "idle"
    /\ UNCHANGED <<prod_model_path, loads>>
    /\ UNCHANGED prod_ret
    /\ UNCHANGED productionRest

\* ProductionStampedePredictor._fallback_prediction: the simulated crowd. The
\* crowd level of the hour bounds the people count drawn, and the risk roll
\* falls below a tenth of the risk probability, below it, or above it.
CrowdLevels == {"low", "medium", "high"}

SimulatedCounts(level) ==
    CASE level = "low" -> {0, 2, 5}
      [] level = "medium" -> {3, 15}
      [] level = "high" -> {10, 25}

RiskRolls == {"below_tenth", "below_prob", "above"}

fallback_prediction(people_count, risk_roll) ==
    LET crowd_density == Min((people_count * 1000) \div 20, 1000)
    IN  IF risk_roll = "below_tenth"
        THEN [crowd_detected |-> TRUE, people_count |-> people_count,
              is_stampede_risk |-> TRUE, risk_level |-> "stampede_imminent",
              crowd_density |-> crowd_density, fallback_mode |-> TRUE,
              demo_mode |-> TRUE]
        ELSE IF risk_roll = "below_prob"
        THEN [crowd_detected |-> TRUE, people_count |-> people_count,
              is_stampede_risk |-> FALSE, risk_level |-> "crowded",
              crowd_density |-> crowd_density, fallback_mode |-> TRUE,
              demo_mode |-> TRUE]
        ELSE [crowd_detected |-> people_count >= 3, people_count |-> people_count,
              is_stampede_risk |-> FALSE,
              risk_level |-> IF ~(people_count >= 3) THEN "normal" ELSE "crowded",
              crowd_density |-> crowd_density, fallback_mode |-> TRUE,
              demo_mode |-> TRUE]

\* ProductionStampedePredictor._create_fallback_with_real_detection: the base
\* dict has no risk fields until the recalculation sets them.
create_fallback_with_real_detection(accurate_count, frame_area_m2) ==
    LET d == recalculate_risk_with_accurate_count(
                 [classification_pred |-> None, crowd_detected |-> accurate_count > 0,
                  people_count |-> accurate_count, is_stampede_risk |-> FALSE,
                  risk_level |-> "unset", crowd_density |-> 0],
                 accurate_count, frame_area_m2)
    IN  [crowd_detected |-> d.crowd_detected, people_count |-> d.people_count,
         is_stampede_risk |-> d.is_stampede_risk, risk_level |-> d.risk_level,
         crowd_density |-> d.crowd_density, fallback_mode |-> TRUE,
         demo_mode |-> FALSE]

\* The model path of predict_crowd: predict_frame, _convert_result_to_dict,
\* the detector's count, the recalculation.
model_prediction(classification_pred, accurate_count, frame_area_m2) ==
    LET result == DetectionResult(classification_pred, accurate_count, frame_area_m2)
        d == recalculate_risk_with_accurate_count(
                 [convert_result_to_dict(result) EXCEPT !.people_count = accurate_count],
                 accurate_count, frame_area_m2)
    IN  [crowd_detected |-> d.crowd_detected, people_count |-> d.people_count,
         is_stampede_risk |-> d.is_stampede_risk, risk_level |-> d.risk_level,
         crowd_density |-> d.crowd_density, fallback_mode |-> FALSE,
         demo_mode |-> FALSE]

\* The images given to predict_crowd: whether preprocessing succeeds, the
\* classifier output and the detector's count for it, whether inference or
\* detection raises, and the draws of the simulation; an image carries only
\* the inputs its path reads.
ProductionImages ==
    {i \in [decodable : BOOLEAN, raises : BOOLEAN,
            classification_pred :
                {c \in ClassProbs : c.crowded = 0 /\ c.stampede \in {0, 9}},
            people_count : {0, 5, 6, 15, 16, 25, 26}, frame_area_m2 : {1, 50},
            simulated_count : UNION {SimulatedCounts(l) : l \in CrowdLevels},
            risk_roll : RiskRolls] :
        /\ ~i.decodable => ~i.raises
        /\ (i.decodable /\ ~i.raises)
              => (i.simulated_count = 0 /\ i.risk_roll = "above")
        /\ ~(i.decodable /\ ~i.raises)
              => (i.classification_pred.stampede = 0 /\ i.people_count = 0
                    /\ i.frame_area_m2 = 1)}

\* ProductionStampedePredictor.predict_crowd(image_data)
production_predict(i) ==
    /\ prod_pc = "idle"
    /\ LET simulated == fallback_prediction(i.simulated_count, i.risk_roll)
       IN  prod_ret' =
             IF ~i.decodable
             THEN [path |-> "simulated", dict |-> simulated]
             ELSE IF prod_model_loaded /\ ~prod_fallback_mode
             THEN IF i.raises THEN [path |-> "simulated", dict |-> simulated]
                  ELSE [path |-> "model",
                        dict |-> model_prediction(i.classification_pred,
                                     i.people_count, i.frame_area_m2)]
             ELSE IF i.raises THEN [path |-> "simulated", dict |-> simulated]
                  ELSE [path |-> "detector",
                        dict |-> create_fallback_with_real_detection(
                                     i.people_count, i.frame_area_m2)]
    /\ UNCHANGED <<prod_model_loaded, prod_fallback_mode, prod_model_path,
                   prod_pc, loads, load_ret>>
    /\ UNCHANGED productionRest

NextProduction ==
    \/ \E p \in ModelPaths \cup {None}, o \in Outcomes : load_model(p, o)
    \/ ReloadReset
    \/ \E o \in Outcomes : ReloadInitialize(o)
    \/ \E i \in ProductionImages : production_predict(i)

\* -------------------------------------------------------- specifications
Rest == CalibrateIdle /\ FileIdle /\ ViewInit /\ MediaInit

Idle == Rest /\ ProductionIdle /\ TuneIdle

Init == EngineInit /\ PredictorFresh /\ RefInit /\ RaceInit /\ RiskIdle /\ DetIdle
        /\ Idle

Spec == Init /\ [][Next]_vars

SpecLoad == Init /\ [][NextLoad]_vars

\* The worker is a thread the scheduler keeps running.
SpecRunning ==
    Init /\ [][NextRunning]_vars /\ \A w \in Threads : WF_vars(WorkerStep(w))

InitPredictor ==
    EngineInit /\ PredictorInit /\ RefInit /\ RaceInit /\ RiskIdle /\ DetIdle
        /\ Idle

InitRisk ==
    EngineInit /\ PredictorFresh /\ RefInit /\ RaceInit /\ RiskInit /\ DetIdle
        /\ Idle

InitDetect ==
    EngineInit /\ PredictorFresh /\ RefInit /\ RaceInit /\ RiskIdle /\ DetInit
        /\ Idle

InitCalibrate ==
    /\ EngineInit /\ RefInit /\ RaceInit /\ RiskIdle /\ DetIdle /\ Idle
    /\ fallback_mode = TRUE /\ model_loaded = FALSE /\ production_loaded = FALSE
    /\ prev_small_gray = None /\ calls = 0 /\ analysis = None
    /\ \E c \in CalibStates : ema_mean = c.mean /\ ema_var = c.var

SpecPredictor == InitPredictor /\ [][NextPredictor]_vars

SpecTwoRuns == InitPredictor /\ [][NextTwoRuns]_vars

SpecRace == InitPredictor /\ [][NextRace]_vars

SpecRisk == InitRisk /\ [][NextRisk]_vars

SpecDetect == InitDetect /\ [][NextDetect]_vars

SpecCalibrate == InitCalibrate /\ [][NextCalibrate]_vars

SpecFile == InitPredictor /\ [][NextFile]_vars

SpecView == InitPredictor /\ [][NextView]_vars

InitProduction ==
    /\ EngineInit /\ PredictorFresh /\ RefInit /\ RaceInit /\ RiskIdle /\ DetIdle
    /\ Rest /\ ProductionInit /\ TuneIdle

SpecProduction == InitProduction /\ [][NextProduction]_vars

InitFilter ==
    /\ EngineInit /\ PredictorFresh /\ RefInit /\ RaceInit /\ RiskIdle /\ FilterInit
    /\ Idle

SpecFilter == InitFilter /\ [][NextFilter]_vars

InitTune ==
    /\ EngineInit /\ PredictorFresh /\ RefInit /\ RaceInit /\ RiskIdle /\ DetIdle
    /\ Rest /\ ProductionIdle /\ TuneInit

SpecTune == InitTune /\ [][NextTune]_vars

SpecSmoothing == InitPredictor /\ [][NextSmoothing]_vars

SpecMedia == InitPredictor /\ [][NextMedia]_vars

\* The analysis threads are daemon threads the scheduler keeps running.
SpecMediaFair == SpecMedia /\ \A u \in Uploads : WF_vars(MediaThread(u))

\* ---------------------------------------------------------------- claims

\* C1: submit_frame_async never blocks and never raises (it can always be
\* taken); when the processing queue already holds QueueMaxSize frames it
\* returns False and leaves the queue unchanged, otherwise it returns True and
\* appends the frame at the tail; so the queue never holds more than
\* QueueMaxSize frames.
C1_QueueBounded ==
    /\ Len(processing_queue) <= QueueMaxSize
    /\ submitted < MaxSubmit => ENABLED submit_frame_async(1)

C1_SubmitStep ==
    submitted' # submitted =>
        IF Len(processing_queue) >= QueueMaxSize
        THEN /\ submit_ret'.ok = FALSE
             /\ processing_queue' = processing_queue
        ELSE /\ submit_ret'.ok = TRUE
             /\ processing_queue' =
                    Append(processing_queue,
                           [frame |-> submitted', frame_id |-> submit_ret'.frame_id])

C1_Backpressure == []C1_QueueBounded /\ [][C1_SubmitStep]_vars

\* C1 witness: a submit met a full queue, returned False and dropped its frame.
C1_Witness ==
    /\ submit_ret # None
    /\ submit_ret.ok = FALSE
    /\ Len(processing_queue) = QueueMaxSize
    /\ \A i \in 1..Len(processing_queue) : processing_queue[i].frame # submitted

\* C2: results of one stream are put on the result sink in the order their
\* frames were accepted: of two results of the same stream in the sink, the
\* one of the earlier frame comes first.
C2_ResultsInAcceptanceOrder ==
    \A i, j \in 1..Len(result_queue) :
        (i < j /\ result_queue[i].frame_id = result_queue[j].frame_id)
            => result_queue[i].frame < result_queue[j].frame

\* C3: a poll made for a stream returns only a result of a frame submitted
\* under that stream.
C3_PollKeyedByStream ==
    (poll_ret # None /\ poll_ret.result # None)
        => poll_ret.result.frame_id = poll_ret.caller

\* C4: single writer: at any time at most one request thread is inside the
\* read-modify-write of the motion state (_compute_motion_score, between its
\* read and its store of _prev_small_gray) or of the calibration state
\* (_update_calibration, between its read of _ema_mean and its return).
Mutating(t) == rpc[t] \in {"motion_store", "mean", "var", "z"}

C4_SingleWriter == Cardinality({t \in Requests : Mutating(t)}) <= 1

\* C5: the motion_score and calibrated score returned for a frame of stream 1
\* are the same whether or not frames of another stream were processed in
\* between: they equal those of the run given stream 1's frames only.
C5_PerStreamState ==
    (analysis # None /\ analysis.stream = 1 /\ analysis.result.decoded)
        => /\ analysis.result.motion_score = ref_analysis.result.motion_score
           /\ analysis.result.calibrated_risk_score =
                  ref_analysis.result.calibrated_risk_score

\* C9: of two results, the one with the lower risk_score never carries the
\* risk flag when the one with the higher risk_score does not (stated of each
\* two consecutive results of the predictor).
RiskFlagMonotone(lo, hi) ==
    lo.risk_score < hi.risk_score => ~(lo.is_stampede_risk /\ ~hi.is_stampede_risk)

C9_Step ==
    (analysis # None /\ analysis.result.decoded /\ calls' = calls + 1
        /\ analysis'.result.decoded)
        => /\ RiskFlagMonotone(analysis.result, analysis'.result)
           /\ RiskFlagMonotone(analysis'.result, analysis.result)

Rank(level) ==
    CASE level = "normal" -> 0
      [] level = "crowded" -> 1
      [] level = "high_risk" -> 2
      [] level = "stampede_imminent" -> 3

\* The most-severe-first rule on probabilities in tenths, a people count and a
\* density in thousandths.
RuleLevel(p_stampede, p_crowded, people_count, density) ==
    IF p_stampede > 7 \/ people_count > 20 \/ density > 800 THEN "stampede_imminent"
    ELSE IF p_stampede > 4 \/ people_count > 15 \/ density > 600 THEN "high_risk"
    ELSE IF p_crowded > 5 \/ people_count > 5 \/ density > 300 THEN "crowded"
    ELSE "normal"

FollowsRule(r) ==
    r # None => r.risk_level = RuleLevel(r.classification_pred.stampede,
                                         r.classification_pred.crowded,
                                         r.people_count, r.crowd_density)

\* C7: every reported risk_level, the engine's and the production
\* predictor's, is the one the most-severe-first rule gives for the reported
\* probabilities, people count and density.
C7_RiskRule ==
    risk_out # None
        => FollowsRule(risk_out.a) /\ FollowsRule(risk_out.b) /\ FollowsRule(risk_out.dict)

\* C8 as stated: for the same people count and density, of any two classifier
\* outputs the one with the larger p_stampede has a risk level of at least the
\* rank of the other's.
C8_MonotoneAnyOutputs ==
    (risk_out # None /\ risk_out.a # None /\ risk_out.b # None
        /\ risk_in.a.stampede <= risk_in.b.stampede)
        => Rank(risk_out.a.risk_level) <= Rank(risk_out.b.risk_level)

\* C8 amended: the same for two classifier outputs with the same p_crowded.
C8_MonotoneSameCrowded ==
    (risk_out # None /\ risk_out.a # None /\ risk_out.b # None
        /\ risk_in.a.crowded = risk_in.b.crowded
        /\ risk_in.a.stampede <= risk_in.b.stampede)
        => Rank(risk_out.a.risk_level) <= Rank(risk_out.b.risk_level)

C8_Witness ==
    /\ risk_out # None /\ risk_out.a # None /\ risk_out.b # None
    /\ risk_in.a.crowded = risk_in.b.crowded
    /\ risk_in.a.stampede < risk_in.b.stampede
    /\ Rank(risk_out.a.risk_level) < Rank(risk_out.b.risk_level)

\* The IoU of two (x, y, w, h) boxes is at least the threshold, in thousandths.
IoUAtLeast(a, b, threshold) ==
    LET iw == Min(a.x + a.w, b.x + b.w) - Max(a.x, b.x)
        ih == Min(a.y + a.h, b.y + b.h) - Max(a.y, b.y)
        inter == IF iw > 0 /\ ih > 0 THEN iw * ih ELSE 0
    IN  inter * 1000 >= threshold * (a.w * a.h + b.w * b.h - inter)

\* C6: every reported people_count is the number of detections of the frame
\* the detector keeps after its filter and NMS.
C6_CountIsPostNMS ==
    det_out # None =>
        LET final == Len(apply_nms(filter_detections(det_frame.detections, ImageShape)))
        IN  /\ det_out.people_result # None => det_out.people_result.people_count = final
            /\ det_out.dict # None => det_out.dict.people_count = final
            /\ det_out.result # None => det_out.result.people_count = final

\* C10: of two filtered detections with different confidences, only the one
\* with the higher confidence is in the fused set when their IoU is at or
\* above the NMS threshold, and both are when it is below.
C10_NMSOfTwo ==
    (det_out # None /\ det_out.people_result # None
        /\ Len(det_out.people_result.filtered) = 2
        /\ det_out.people_result.filtered[1].confidence #
               det_out.people_result.filtered[2].confidence)
        => LET d1 == det_out.people_result.filtered[1]
               d2 == det_out.people_result.filtered[2]
               hi == IF d1.confidence > d2.confidence THEN d1 ELSE d2
               fused == {det_out.people_result.detections[i] :
                            i \in 1..Len(det_out.people_result.detections)}
           IN  IF IoUAtLeast(d1.bbox, d2.bbox, 400)
               THEN fused = {hi} /\ det_out.people_result.people_count = 1
               ELSE fused = {d1, d2} /\ det_out.people_result.people_count = 2

\* Two (x, y, w, h) boxes share no area.
Disjoint(a, b) ==
    \/ a.x + a.w <= b.x \/ b.x + b.w <= a.x
    \/ a.y + a.h <= b.y \/ b.y + b.h <= a.y

\* C11: when the detections that pass the filter are pairwise non-overlapping,
\* the fused set is the filtered set: NMS suppresses none of them.
C11_FusionIdentityOnDisjoint ==
    (det_out # None /\ det_out.people_result # None
        /\ \A i, j \in 1..Len(det_out.people_result.filtered) :
               i # j => Disjoint(det_out.people_result.filtered[i].bbox,
                                 det_out.people_result.filtered[j].bbox))
        => /\ {det_out.people_result.detections[i] :
                  i \in 1..Len(det_out.people_result.detections)}
              = {det_out.people_result.filtered[i] :
                  i \in 1..Len(det_out.people_result.filtered)}
           /\ det_out.people_result.people_count
              = det_out.people_result.filtered_detections

\* C12: every score _update_calibration returns for a risk in [0,1] lies in
\* [0,1], from the constructed state and from states of decayed variance.
C12_CalibratedBounded ==
    calibrate_ret # None
        => calibrate_ret.calibrated >= 0 /\ calibrate_ret.calibrated <= 1000

\* A call whose variance is zero after the update: the denominator is 1e-6.
C12_Witness ==
    /\ calibrate_ret # None
    /\ calibrate_ret.sd = 0
    /\ calls > 1

\* The fields of a contract-shaped result.
ContractFields ==
    {"people_count", "is_stampede_risk", "confidence_score", "fallback_mode"}

\* C13: every value predict_from_file returns carries people_count, the risk
\* flag, a confidence and the fallback flag.
C13_ContractShaped ==
    file_ret # None => ContractFields \subseteq DOMAIN file_ret.result

\* C15: when the classifier is unavailable (the predictor is in fallback
\* mode, or no model is loaded), every result of the file path has the
\* fallback flag set.
C15_FallbackFlagged ==
    (file_ret # None /\ (fallback_mode \/ ~model_loaded \/ ~production_loaded))
        => file_ret.result.fallback_mode = TRUE

C14_MalformedIs4xx ==
    (response # None /\ response.op = "analyze_frame" /\ response.frame = "malformed")
        => response.status \in 400..499

\* C16: the first frame analysed for a stream right after its stop is
\* treated as the first frame of a new stream: no motion against an earlier
\* frame, and calibrated from the constructed EMA state.
C16_Step ==
    (/\ response # None /\ response.op = "stop_stream" /\ response.status = 200
     /\ response'.op = "analyze_frame" /\ response'.stream = response.stream
     /\ response'.frame = "decoded")
        => /\ analysis'.result.motion_score = 0
           /\ analysis'.result.calibrated_risk_score =
                  update_calibration(500, 5000000, analysis'.result.risk_score)

C16_CloseEvictsState == [][C16_Step]_vars

C17_PollNeverBlocks ==
    (poll_ret # None /\ poll_ret.waited) => poll_ret.result = None

\* C20: Scenario B: for a frame with 25 people counted and a classifier output
\* with p_stampede = 0.9, the result the production predictor returns has
\* risk_level stampede_imminent and is flagged as a stampede risk, which is
\* what makes the view emit an alert.
C20_ScenarioB ==
    (risk_out # None /\ risk_out.dict # None
        /\ risk_out.dict.people_count = 25
        /\ risk_out.dict.classification_pred.stampede = 9)
        => /\ risk_out.dict.risk_level = "stampede_imminent"
           /\ risk_out.dict.is_stampede_risk

\* C21: motion scoring over a frame sequence.  The first frame scored for
\* stream 1 (the run with stream 1's frames alone has no previous frame yet)
\* has motion_score 0 whatever other streams submitted before; a frame equal
\* to the stored previous frame has motion_score 0; every motion_score lies in
\* [0, 1]; and the stored previous frame is the one just scored.
C21_Step ==
    (calls' = calls + 1 /\ analysis'.result.decoded)
        => /\ (analysis'.stream = 1 /\ ref_prev_small_gray = None)
                => analysis'.result.motion_score = 0
           /\ prev_small_gray' = prev_small_gray
                => analysis'.result.motion_score = 0
           /\ analysis'.result.motion_score \in 0..1000
           /\ analysis'.stream = 1 => prev_small_gray' = ref_prev_small_gray'

C21_MotionOverSequence == [][C21_Step]_vars

\* C22: every accepted upload whose analysis thread starts eventually has
\* analysis_status completed or failed, and an upload whose status is
\* completed carries an analysis_result with people_count and
\* confidence_score.
C22_CompletedHasResult ==
    \A u \in Uploads :
        (uploads[u] # None /\ uploads[u].analysis_status = "completed")
            => /\ uploads[u].analysis_result # None
               /\ {"people_count", "confidence_score"}
                      \subseteq DOMAIN uploads[u].analysis_result

C22_UploadAnalysisTerminates ==
    /\ []C22_CompletedHasResult
    /\ \A u \in Uploads :
          (mpc[u] # "idle")
              ~> (uploads[u] # None
                    /\ uploads[u].analysis_status \in {"completed", "failed"})

\* C27: analysis_status only moves pending -> processing -> completed or
\* failed; completed and failed are terminal.
C27_Step ==
    \A u \in Uploads :
        (uploads[u] # None /\ uploads'[u] # uploads[u])
            => <<uploads[u].analysis_status, uploads'[u].analysis_status>>
                  \in {<<"pending", "processing">>,
                       <<"processing", "completed">>,
                       <<"processing", "failed">>}

C27_StatusTransitions == [][C27_Step]_vars

\* C25: at most one worker thread is inside the _processing_worker loop at
\* any time, whatever sequence of start_async_processing and
\* stop_async_processing calls was made.
InWorkerLoop(w) == wpc[w] \in {"check", "get", "process"}

C25_AtMostOneWorker == Cardinality({w \in Threads : InWorkerLoop(w)}) <= 1

\* C26: while the worker stays running, every accepted frame is eventually
\* dequeued and its DetectionResult put on the result queue, exactly once: the
\* worker's put is of the frame it holds, which is then in no queue and held
\* by no worker; a failure inside predict_frame gives the normal,
\* confidence-0 fallback result for that frame and the worker goes on.
FrameQueued(n) ==
    \E i \in 1..Len(processing_queue) : processing_queue[i].frame = n

ResultPut(n) == \E i \in 1..Len(result_queue) : result_queue[i].frame = n

C26_Step ==
    \A w \in Threads :
        (wpc[w] = "process" /\ wpc'[w] # "process")
            => /\ Len(result_queue') = Len(result_queue) + 1
               /\ LET r == result_queue'[Len(result_queue')]
                  IN  /\ r.frame = wframe[w].frame
                      /\ r.frame_id = wframe[w].frame_id
                      /\ r.detection \in {Determined, FallbackDetection}
               /\ wpc'[w] = "check"
               /\ \A v \in Threads :
                      wframe'[v] # None => wframe'[v].frame # wframe[w].frame
               /\ \A i \in 1..Len(processing_queue') :
                      processing_queue'[i].frame # wframe[w].frame

C26_EveryAcceptedFrameGetsResult ==
    /\ [][C26_Step]_vars
    /\ \A n \in 1..MaxFrames : (is_running /\ FrameQueued(n)) ~> ResultPut(n)

\* A frame whose prediction failed has its fallback result on the result
\* queue and the worker is back at the test of its loop.
C26_Witness ==
    /\ \E i \in 1..Len(result_queue) :
          /\ result_queue[i].detection = FallbackDetection
          /\ result_queue[i].frame = 1
    /\ \E w \in Threads : wpc[w] = "check"
    /\ submitted = MaxFrames

\* C28: after construction and after every completed load_model or
\* reload_models call exactly one of model_loaded and fallback_mode is true,
\* and a failed load_model(path) leaves both flags as they were.
C28_FlagsExclusive ==
    /\ prod_pc = "idle" => (prod_model_loaded # prod_fallback_mode)
    /\ (load_ret # None /\ load_ret.op = "load_model"
            /\ load_ret.model_path # None /\ ~load_ret.success)
         => load_ret.after = load_ret.before

\* A load_model(path) failed on a predictor that had its model loaded.
C28_Witness ==
    /\ load_ret # None /\ load_ret.op = "load_model"
    /\ load_ret.model_path # None /\ ~load_ret.success
    /\ load_ret.before = Loaded
    /\ prod_model_loaded /\ ~prod_fallback_mode

\* C29: in every dict ProductionStampedePredictor.predict_crowd returns, on
\* the model path, the detector fallback and the simulated fallback,
\* is_stampede_risk is true exactly when risk_level is high_risk or
\* stampede_imminent, and crowd_detected false implies risk_level normal.
C29_FlagsAgreeWithLevel ==
    prod_ret # None
        => /\ prod_ret.dict.is_stampede_risk
                <=> prod_ret.dict.risk_level \in {"high_risk", "stampede_imminent"}
           /\ ~prod_ret.dict.crowd_detected => prod_ret.dict.risk_level = "normal"

\* The detector fallback returned a high_risk dict for a large crowd.
C29_Witness ==
    /\ prod_ret # None /\ prod_ret.path = "detector"
    /\ prod_ret.dict.risk_level = "high_risk" /\ prod_ret.dict.is_stampede_risk
    /\ loads > 0

\* C30: temporal smoothing in analyze_frame.  For the result in row i of a
\* stream, over the up to 5 most recent results of that stream up to and
\* including row i, the smoothed flag is set exactly when at least
\* max(2, n div 2) of those n results are risky; the frame has an alert exactly
\* when its own flag or the smoothed flag is set, of severity critical when
\* its own flag is set and high otherwise.
RecentOfStream(i) ==
    LET mine == {j \in 1..i : db_results[j].live_stream = db_results[i].live_stream}
    IN  {j \in mine : Cardinality({k \in mine : k > j}) < 5}

SmoothedAt(i) ==
    LET n == Cardinality(RecentOfStream(i))
        risky == Cardinality({j \in RecentOfStream(i) : db_results[j].is_stampede_risk})
    IN  risky >= (IF n \div 2 > 2 THEN n \div 2 ELSE 2)

AlertsOf(i) == {k \in 1..Len(alerts) : alerts[k].analysis_result = i}

Keeps(d) ==
    /\ d.confidence >= 500
    /\ d.bbox.w >= 30 /\ d.bbox.h >= 50
    /\ d.bbox.w <= 300 /\ d.bbox.h <= 400
    /\ d.bbox.x >= 5 /\ d.bbox.y >= 5
    /\ d.bbox.x + d.bbox.w <= ImageShape.w - 5
    /\ d.bbox.y + d.bbox.h <= ImageShape.h - 5
    /\ 10 * d.bbox.h >= 12 * d.bbox.w

C23_FilterKeepsExactly ==
    (det_out # None /\ det_out.people_result # None)
        => det_out.people_result.filtered = SelectSeq(det_frame.detections, Keeps)

\* A box of aspect ratio exactly 1.2 was kept and another detection dropped.
C23_Witness ==
    /\ det_out # None /\ det_out.people_result # None
    /\ \E i \in 1..Len(det_out.people_result.filtered) :
          LET b == det_out.people_result.filtered[i].bbox
          IN  10 * b.h = 12 * b.w
    /\ Len(det_out.people_result.filtered) < Len(det_frame.detections)

\* C24: tune_parameters returns, for every list of test images and counts, a
\* pair of the grid whose accuracy is no lower than that of any of the 25
\* pairs, and leaves the detector's thresholds set to the returned pair.
C24_GridSearchSelectsBest ==
    tune_ret # None
        => /\ tune_ret.raised = "no"
           /\ tune_ret.best_params # None
           /\ \A k \in 1..25 :
                  correct_predictions(TunePairs[k], tune_in) <= tune_ret.correct
           /\ detector_params = tune_ret.best_params

============================================================================
